---- MODULE Spec2Model ----
(***************************************************************************)
(* A model of awecut: the pack file codec (pack.rs), the fingerprint cache *)
(* updater (fingerprint.rs), the match engine and the interactive cue      *)
(* session (cut.rs).                                                       *)
(*                                                                         *)
(* Texts are sequences of one-character strings, so that trimming,         *)
(* splitting, number parsing and base64 are computed, not assumed.         *)
(* f32 values are records: Fin(n) is n hundredths of a second, NaN and     *)
(* Inf(+1/-1) are the special values f32::from_str can return.             *)
(***************************************************************************)
EXTENDS Integers, Sequences, FiniteSets, TLC

\* the interactive session
\* extract is the outcome of the last frame extraction an inspect asked for
VARIABLES pc, cues, duration, buf, comps, line, nread, range, extract
\* the pack codec: the position, the stream and the result of decode for the
\* synchronous variant, and the same three for the asynchronous variant
VARIABLES ppc, pack, stream, decoded, apc, astream, adecoded

\* the fingerprint cache updater: the file system (dirFiles, sidecar), the
\* locals of update_fingerprints (files, packs, cur, todo), the number of
\* completed passes, and held, the entries each sidecar held when the
\* running pass began
VARIABLES upc, dirFiles, sidecar, files, packs, cur, todo, npass, held
\* calls: the invocations of calculate_fingerprint for the directory being
\* visited, each with its outcome; wrote: the outcome of the last sidecar write
VARIABLES calls, wrote

\* the match engine: the numbers of inclusion and exclusion packs given, the
\* outcome of fingerprinting the input, the state of every pack load and of
\* every per-entry match, the per-entry results in completion order, and the
\* two lists returned
VARIABLES mpc, ninc, nexc, fpst, load, mst, inc_segments, exc_segments,
          inc_out, exc_out

\* the free functions parse_time, next_power_of_two, zero_pad and
\* compare_segments: the position of one call, the function called, its
\* arguments, whether the build checks integer overflow, and what came back
VARIABLES fpc, callee, arg, build, ret

\* OverlappingSamplesIter (samples.rs): the chunk size N, the fields buffer,
\* sample_iter (the chunks the inner iterator still holds), is_first and
\* is_overlap, the chunks given at construction, what the calls of next
\* returned so far, and whether a call panicked
VARIABLES N, buffer, sample_iter, is_first, is_overlap, chunks, yielded, opc

ivars == <<pc, cues, duration, buf, comps, line, nread, range, extract>>
pvars == <<ppc, pack, stream, decoded, apc, astream, adecoded>>
uvars == <<upc, dirFiles, sidecar, files, packs, cur, todo, npass, held,
           calls, wrote>>
mvars == <<mpc, ninc, nexc, fpst, load, mst, inc_segments, exc_segments,
           inc_out, exc_out>>
fvars == <<fpc, callee, arg, build, ret>>
svars == <<N, buffer, sample_iter, is_first, is_overlap, chunks, yielded, opc>>

vars == <<pc, cues, duration, buf, comps, line, nread, range, extract,
          ppc, pack, stream, decoded, apc, astream, adecoded,
          upc, dirFiles, sidecar, files, packs, cur, todo, npass, held,
          calls, wrote,
          mpc, ninc, nexc, fpst, load, mst, inc_segments, exc_segments,
          inc_out, exc_out,
          fpc, callee, arg, build, ret,
          N, buffer, sample_iter, is_first, is_overlap, chunks, yielded, opc>>

\* what an action of one component leaves alone
NotInteractive == <<pvars, uvars, mvars, fvars, svars>>
NotPack == <<ivars, uvars, mvars, fvars, svars>>
NotUpdate == <<ivars, pvars, mvars, fvars, svars>>
NotMatches == <<ivars, pvars, uvars, fvars, svars>>
NotFunctions == <<ivars, pvars, uvars, mvars, svars>>
NotSamples == <<ivars, pvars, uvars, mvars, fvars>>

(***************************************************************************)
(* Bounds of the model.                                                    *)
(***************************************************************************)
\* number of lines typed in one interactive session
MaxLines == 3
\* number of entries of a pack handed to the codec
MaxEntries == 2
\* number of consecutive calls of update_fingerprints
MaxPasses == 2
\* numbers of inclusion and exclusion packs given to cut_matches
MaxIncPacks == 2
MaxExcPacks == 1
\* the pieces a raw pack stream is made of
MaxRawLines == 3
\* number of samples of a signal given to zero_pad and compare_segments
MaxSignal == 2
\* number of chunks the inner iterator of OverlappingSamplesIter holds
MaxChunks == 3

(***************************************************************************)
(* Text helpers (std::str).                                                *)
(***************************************************************************)
Reverse(s) == [i \in 1..Len(s) |-> s[Len(s) + 1 - i]]

IsSpace(c) == c \in {" ", "\n", "\t", "\r"}

RECURSIVE TrimStart(_)
TrimStart(s) ==
    IF s = <<>> THEN <<>>
    ELSE IF IsSpace(Head(s)) THEN TrimStart(Tail(s)) ELSE s

\* str::trim: leading and trailing whitespace removed
Trim(s) == Reverse(TrimStart(Reverse(TrimStart(s))))

\* str::split(sep): the pieces between occurrences of sep, at least one piece
RECURSIVE SplitAcc(_, _, _, _)
SplitAcc(s, sep, piece, acc) ==
    IF s = <<>> THEN Append(acc, piece)
    ELSE IF Head(s) = sep THEN SplitAcc(Tail(s), sep, <<>>, Append(acc, piece))
    ELSE SplitAcc(Tail(s), sep, Append(piece, Head(s)), acc)

Split(s, sep) == SplitAcc(s, sep, <<>>, <<>>)

\* str::rsplit(sep): the same pieces, last first
RSplit(s, sep) == Reverse(Split(s, sep))

Digits == <<"0", "1", "2", "3", "4", "5", "6", "7", "8", "9">>

IsDigit(c) == \E i \in 1..10 : Digits[i] = c

DigitVal(c) == (CHOOSE i \in 1..10 : Digits[i] = c) - 1

AllDigits(s) == \A i \in 1..Len(s) : IsDigit(s[i])

RECURSIVE DecVal(_, _)
DecVal(s, acc) ==
    IF s = <<>> THEN acc ELSE DecVal(Tail(s), 10 * acc + DigitVal(Head(s)))

\* u32::from_str / usize::from_str: an optional '+', then one or more digits
UIntFromStr(s) ==
    LET body == IF s # <<>> /\ Head(s) = "+" THEN Tail(s) ELSE s
    IN  IF body # <<>> /\ AllDigits(body)
        THEN [ok |-> TRUE, v |-> DecVal(body, 0)]
        ELSE [ok |-> FALSE, v |-> 0]

(***************************************************************************)
(* f32 values and arithmetic.                                              *)
(***************************************************************************)
Fin(n) == [k |-> "fin", n |-> n]
NaN == [k |-> "nan", n |-> 0]
Inf(sgn) == [k |-> "inf", n |-> sgn]

\* f32::partial_cmp: "None" when either side is NaN
PartialCmp(a, b) ==
    IF a.k = "nan" \/ b.k = "nan" THEN "None"
    ELSE IF a.k = "inf" /\ b.k = "inf"
         THEN (IF a.n = b.n THEN "Equal" ELSE IF a.n < b.n THEN "Less" ELSE "Greater")
    ELSE IF a.k = "inf" THEN (IF a.n < 0 THEN "Less" ELSE "Greater")
    ELSE IF b.k = "inf" THEN (IF b.n < 0 THEN "Greater" ELSE "Less")
    ELSE IF a.n = b.n THEN "Equal" ELSE IF a.n < b.n THEN "Less" ELSE "Greater"

FLt(a, b) == PartialCmp(a, b) = "Less"
FGt(a, b) == PartialCmp(a, b) = "Greater"
FLe(a, b) == PartialCmp(a, b) \in {"Less", "Equal"}

FNeg(a) == IF a.k = "nan" THEN NaN ELSE [k |-> a.k, n |-> 0 - a.n]

FAdd(a, b) ==
    IF a.k = "nan" \/ b.k = "nan" THEN NaN
    ELSE IF a.k = "inf" /\ b.k = "inf" THEN (IF a.n = b.n THEN a ELSE NaN)
    ELSE IF a.k = "inf" THEN a
    ELSE IF b.k = "inf" THEN b
    ELSE Fin(a.n + b.n)

FSub(a, b) == FAdd(a, FNeg(b))

\* the product of a finite whole number m with an f32
FScale(m, a) ==
    IF a.k = "nan" THEN NaN
    ELSE IF a.k = "inf" THEN (IF m = 0 THEN NaN ELSE IF m > 0 THEN a ELSE FNeg(a))
    ELSE Fin(m * a.n)

Lower(c) ==
    IF c = "N" THEN "n" ELSE IF c = "A" THEN "a" ELSE IF c = "I" THEN "i"
    ELSE IF c = "F" THEN "f" ELSE c

LowerAll(s) == [i \in 1..Len(s) |-> Lower(s[i])]

\* the first two fraction digits, as hundredths (further digits are below
\* the resolution of the model)
Hundredths(frac) ==
    (IF Len(frac) >= 1 THEN 10 * DigitVal(frac[1]) ELSE 0)
    + (IF Len(frac) >= 2 THEN DigitVal(frac[2]) ELSE 0)

\* f32::from_str: [+-] then nan | inf | digits[.digits] (exponents are not
\* part of the modelled inputs)
F32FromStr(s) ==
    LET neg  == s # <<>> /\ Head(s) = "-"
        body == IF s # <<>> /\ Head(s) \in {"+", "-"} THEN Tail(s) ELSE s
        low  == LowerAll(body)
        dot  == Split(body, ".")
        sign(v) == IF neg THEN FNeg(v) ELSE v
    IN  IF low = <<"n", "a", "n">> THEN [ok |-> TRUE, v |-> NaN]
        ELSE IF low = <<"i", "n", "f">> THEN [ok |-> TRUE, v |-> sign(Inf(1))]
        ELSE IF Len(dot) = 1 /\ dot[1] # <<>> /\ AllDigits(dot[1])
             THEN [ok |-> TRUE, v |-> sign(Fin(100 * DecVal(dot[1], 0)))]
        ELSE IF Len(dot) = 2 /\ AllDigits(dot[1]) /\ AllDigits(dot[2])
                /\ Len(dot[1]) + Len(dot[2]) > 0
             THEN [ok |-> TRUE,
                   v |-> sign(Fin(100 * DecVal(dot[1], 0) + Hundredths(dot[2])))]
        ELSE [ok |-> FALSE, v |-> NaN]

(***************************************************************************)
(* parse_time (cut.rs).                                                    *)
(***************************************************************************)
parse_time(time) ==
    LET dur == RSplit(time, ":")
        secs == F32FromStr(dur[1])
        mins == UIntFromStr(dur[2])
        hours == UIntFromStr(dur[3])
        err == [ok |-> FALSE, v |-> NaN]
    IN  IF Len(dur) = 1 THEN secs
        ELSE IF Len(dur) = 2
             THEN IF ~mins.ok THEN err
                  ELSE IF ~secs.ok THEN err
                  ELSE [ok |-> TRUE, v |-> FAdd(Fin(100 * mins.v * 60), secs.v)]
        ELSE IF ~hours.ok THEN err
             ELSE IF ~mins.ok THEN err
             ELSE IF ~secs.ok THEN err
             ELSE [ok |-> TRUE,
                   v |-> FAdd(Fin(100 * ((hours.v * 60 + mins.v) * 60)), secs.v)]

(***************************************************************************)
(* Vec helpers (0-based indices, as in the source).                        *)
(***************************************************************************)
\* a push instead of an insertion at the position found
Insert_push(s, i, x) == Append(s, x)

\* an insertion that drops a time already present
Insert_dedup(s, i, x) ==
    IF \E k \in 1..Len(s) : s[k] = x THEN s
    ELSE SubSeq(s, 1, i) \o <<x>> \o SubSeq(s, i + 1, Len(s))

\* Vec::insert(i, x), for i <= len
Insert(s, i, x) == SubSeq(s, 1, i) \o <<x>> \o SubSeq(s, i + 1, Len(s))

\* a removal that takes the index as 1-based
Remove_onebased(s, i) == SubSeq(s, 1, i - 1) \o SubSeq(s, i + 1, Len(s))

\* Vec::remove(i), for i < len
Remove(s, i) == SubSeq(s, 1, i) \o SubSeq(s, i + 2, Len(s))

\* slice::binary_search_by over the comparison outcomes cmps (cmps[i+1] is the
\* outcome for element i).  The standard library promises no particular probe
\* sequence and, among several equal elements, no particular match, so the
\* operator returns the set of results of every probe sequence.  An outcome
\* "None" is the failed unwrap of partial_cmp: a panic.
RECURSIVE BinarySearchBy(_, _, _)
BinarySearchBy(cmps, lo, hi) ==
    IF lo >= hi THEN {[t |-> "Err", i |-> lo]}
    ELSE UNION { IF cmps[mid + 1] = "Equal" THEN {[t |-> "Ok", i |-> mid]}
                 ELSE IF cmps[mid + 1] = "Less" THEN BinarySearchBy(cmps, mid + 1, hi)
                 ELSE IF cmps[mid + 1] = "Greater" THEN BinarySearchBy(cmps, lo, mid)
                 ELSE {[t |-> "Panic", i |-> mid]} : mid \in lo..(hi - 1) }

(***************************************************************************)
(* base64 (STANDARD engine: padded, canonical).                            *)
(***************************************************************************)
B64Alphabet ==
    <<"A", "B", "C", "D", "E", "F", "G", "H", "I", "J", "K", "L", "M",
      "N", "O", "P", "Q", "R", "S", "T", "U", "V", "W", "X", "Y", "Z",
      "a", "b", "c", "d", "e", "f", "g", "h", "i", "j", "k", "l", "m",
      "n", "o", "p", "q", "r", "s", "t", "u", "v", "w", "x", "y", "z",
      "0", "1", "2", "3", "4", "5", "6", "7", "8", "9", "+", "/">>

B64Char(v) == B64Alphabet[v + 1]

IsB64(c) == \E i \in 1..64 : B64Alphabet[i] = c

B64Val(c) == (CHOOSE i \in 1..64 : B64Alphabet[i] = c) - 1

RECURSIVE B64Encode(_)
B64Encode(bytes) ==
    IF Len(bytes) = 0 THEN <<>>
    ELSE IF Len(bytes) = 1
    THEN <<B64Char(bytes[1] \div 4), B64Char((bytes[1] % 4) * 16), "=", "=">>
    ELSE IF Len(bytes) = 2
    THEN <<B64Char(bytes[1] \div 4),
           B64Char((bytes[1] % 4) * 16 + bytes[2] \div 16),
           B64Char((bytes[2] % 16) * 4), "=">>
    ELSE <<B64Char(bytes[1] \div 4),
           B64Char((bytes[1] % 4) * 16 + bytes[2] \div 16),
           B64Char((bytes[2] % 16) * 4 + bytes[3] \div 64),
           B64Char(bytes[3] % 64)>> \o B64Encode(SubSeq(bytes, 4, Len(bytes)))

\* one group of four symbols; only the last group may be padded, and the bits
\* that padding leaves unused must be zero
B64Group(g, last) ==
    IF IsB64(g[1]) /\ IsB64(g[2]) /\ IsB64(g[3]) /\ IsB64(g[4])
    THEN [ok |-> TRUE,
          bytes |-> <<B64Val(g[1]) * 4 + B64Val(g[2]) \div 16,
                      (B64Val(g[2]) % 16) * 16 + B64Val(g[3]) \div 4,
                      (B64Val(g[3]) % 4) * 64 + B64Val(g[4])>>]
    ELSE IF last /\ IsB64(g[1]) /\ IsB64(g[2]) /\ IsB64(g[3]) /\ g[4] = "="
            /\ B64Val(g[3]) % 4 = 0
    THEN [ok |-> TRUE,
          bytes |-> <<B64Val(g[1]) * 4 + B64Val(g[2]) \div 16,
                      (B64Val(g[2]) % 16) * 16 + B64Val(g[3]) \div 4>>]
    ELSE IF last /\ IsB64(g[1]) /\ IsB64(g[2]) /\ g[3] = "=" /\ g[4] = "="
            /\ B64Val(g[2]) % 16 = 0
    THEN [ok |-> TRUE, bytes |-> <<B64Val(g[1]) * 4 + B64Val(g[2]) \div 16>>]
    ELSE [ok |-> FALSE, bytes |-> <<>>]

RECURSIVE B64Decode(_)
B64Decode(cs) ==
    IF Len(cs) = 0 THEN [ok |-> TRUE, bytes |-> <<>>]
    ELSE IF Len(cs) < 4 THEN [ok |-> FALSE, bytes |-> <<>>]
    ELSE LET g == B64Group(SubSeq(cs, 1, 4), Len(cs) = 4)
             rest == B64Decode(SubSeq(cs, 5, Len(cs)))
         IN  IF g.ok /\ rest.ok
             THEN [ok |-> TRUE, bytes |-> g.bytes \o rest.bytes]
             ELSE [ok |-> FALSE, bytes |-> <<>>]

(***************************************************************************)
(* The pack codec, PackFile (pack.rs).  A PackFile is a sequence of        *)
(* entries [name, fp]: name a text, fp a sequence of u32 words.            *)
(***************************************************************************)
\* a u32 word x is kept as its two 16-bit halves, x = 65536 * hi + lo (the
\* model checker's integers are 32-bit signed)
U32(hi, lo) == [hi |-> hi, lo |-> lo]

\* u32::to_be_bytes: most significant byte first
to_be_bytes(x) == <<x.hi \div 256, x.hi % 256, x.lo \div 256, x.lo % 256>>

\* u32::to_le_bytes: least significant byte first, the order decode expects
to_le_bytes(x) == <<x.lo % 256, x.lo \div 256, x.hi % 256, x.hi \div 256>>

\* u32::from_le_bytes: b[1] is the least significant byte
from_le_bytes(b) == U32(256 * b[4] + b[3], 256 * b[2] + b[1])

\* the inner loop of encode: every word's bytes pushed to fp_bytes
RECURSIVE FpBytes(_)
FpBytes(fp) ==
    IF fp = <<>> THEN <<>> ELSE to_be_bytes(Head(fp)) \o FpBytes(Tail(fp))

\* the words decode builds from fp_bytes: len/4 of them, trailing bytes dropped
FpWords(bytes) ==
    [i \in 1..(Len(bytes) \div 4) |-> from_le_bytes(SubSeq(bytes, 4 * i - 3, 4 * i))]

\* PackFile::encode: one line "name:base64\n" per entry, in entry order
RECURSIVE encode(_)
encode(pk) ==
    IF pk = <<>> THEN <<>>
    ELSE Head(pk).name \o <<":">> \o B64Encode(FpBytes(Head(pk).fp)) \o <<"\n">>
         \o encode(Tail(pk))

\* PackFile::encode_async
RECURSIVE encode_async(_)
encode_async(pk) ==
    IF pk = <<>> THEN <<>>
    ELSE (Head(pk).name \o <<":">> \o B64Encode(FpBytes(Head(pk).fp)) \o <<"\n">>)
         \o encode_async(Tail(pk))

\* BufRead::read_line: the bytes up to and including the next newline, or
\* what is left of the stream
RECURSIVE LineLen(_, _)
LineLen(s, n) ==
    IF n >= Len(s) THEN Len(s)
    ELSE IF s[n + 1] = "\n" THEN n + 1 ELSE LineLen(s, n + 1)

read_line(s) == SubSeq(s, 1, LineLen(s, 0))

PackOk(fps) == [t |-> "Ok", pack |-> fps, index |-> 0]
PackErr(kind, i) == [t |-> kind, pack |-> <<>>, index |-> i]

\* the loop of PackFile::decode, from line i with the entries read so far
RECURSIVE decode_loop(_, _, _)
decode_loop(s, i, fingerprints) ==
    LET ln == read_line(s)
        parts == Split(Trim(ln), ":")
        fp_bytes == B64Decode(parts[2])
    IN  IF Len(ln) > 0
        THEN IF Len(parts) # 2 THEN PackErr("InvalidLine", i)
             ELSE IF ~fp_bytes.ok THEN PackErr("InvalidFingerprint", 0)
             ELSE decode_loop(SubSeq(s, Len(ln) + 1, Len(s)), i + 1,
                              Append(fingerprints,
                                     [name |-> parts[1], fp |-> FpWords(fp_bytes.bytes)]))
        ELSE PackOk(fingerprints)

\* a decode that counts lines from 1
decode_onebased(s) == decode_loop(s, 1, <<>>)

\* PackFile::decode
decode(s) == decode_loop(s, 0, <<>>)

\* the loop of PackFile::decode_async
RECURSIVE decode_async_loop(_, _, _)
decode_async_loop(s, i, fingerprints) ==
    LET ln == read_line(s)
        parts == Split(Trim(ln), ":")
        fp_bytes == B64Decode(parts[2])
    IN  IF Len(ln) > 0
        THEN IF Len(parts) # 2 THEN PackErr("InvalidLine", i)
             ELSE IF ~fp_bytes.ok THEN PackErr("InvalidFingerprint", 0)
             ELSE decode_async_loop(SubSeq(s, Len(ln) + 1, Len(s)), i + 1,
                                    Append(fingerprints,
                                           [name |-> parts[1],
                                            fp |-> FpWords(fp_bytes.bytes)]))
        ELSE PackOk(fingerprints)

\* a decode_async that counts lines from 1
decode_async_onebased(s) == decode_async_loop(s, 1, <<>>)

\* PackFile::decode_async
decode_async(s) == decode_async_loop(s, 0, <<>>)

\* the entries the codec is exercised with: fingerprints of 0 to 3 words
\* (every base64 padding), words whose bytes are and are not a palindrome
EntryPool ==
    { [name |-> <<"a">>, fp |-> <<>>],
      [name |-> <<"a">>, fp |-> <<U32(0, 1)>>],
      [name |-> <<"b">>, fp |-> <<U32(258, 772)>>],
      [name |-> <<"b">>, fp |-> <<U32(0, 0), U32(65535, 65535)>>],
      [name |-> <<"c">>, fp |-> <<U32(0, 1), U32(0, 2), U32(0, 3)>>],
      [name |-> <<"c", ".", "x">>, fp |-> <<U32(65280, 255), U32(0, 0)>>] }

RECURSIVE SeqsUpTo(_, _)
SeqsUpTo(S, n) ==
    IF n = 0 THEN {<<>>}
    ELSE LET shorter == SeqsUpTo(S, n - 1)
         IN  shorter \cup { Append(q, x) : q \in shorter, x \in S }

NoResult == [t |-> "none", pack |-> <<>>, index |-> 0]

\* pieces of pack files as they may be found on disk: a well-formed line, a
\* line without ':', a line with two ':', a payload that is not base64, an
\* empty line, a payload of 3 bytes, a line with blanks around it, and a
\* well-formed line that lacks its newline
RawPieces ==
    { <<"a", ":", "A", "A", "A", "A", "A", "Q", "=", "=", "\n">>,
      <<"b", "a", "d", "\n">>,
      <<"a", ":", "b", ":", "c", "\n">>,
      <<"a", ":", "!", "\n">>,
      <<"\n">>,
      <<"a", ":", "A", "A", "A", "A", "\n">>,
      <<" ", "b", ":", " ", "\n">>,
      <<"c", ":", "A", "A", "A", "A", "A", "g", "=", "=">> }

RECURSIVE Concat(_)
Concat(ss) == IF ss = <<>> THEN <<>> ELSE Head(ss) \o Concat(Tail(ss))

\* the byte streams handed to decode and decode_async
RawStreams == { Concat(ps) : ps \in SeqsUpTo(RawPieces, MaxRawLines) }

\* either a PackFile to encode and read back, or a stream to decode
InitPack ==
    /\ decoded = NoResult
    /\ adecoded = NoResult
    /\ \/ /\ ppc = "new"
          /\ apc = "new"
          /\ pack \in SeqsUpTo(EntryPool, MaxEntries)
          /\ stream = <<>>
          /\ astream = <<>>
       \/ /\ ppc = "raw"
          /\ apc = "raw"
          /\ pack = <<>>
          /\ stream \in RawStreams
          /\ astream = stream

\* pack.encode(&mut writer) into an in-memory stream
Encode ==
    /\ ppc = "new"
    /\ stream' = encode(pack)
    /\ ppc' = "encoded"
    /\ UNCHANGED <<pack, decoded, apc, astream, adecoded>>
    /\ UNCHANGED NotPack

\* PackFile::decode(&mut reader) of the stream written
Decode ==
    /\ ppc = "encoded"
    /\ decoded' = decode(stream)
    /\ ppc' = "decoded"
    /\ UNCHANGED <<pack, stream, apc, astream, adecoded>>
    /\ UNCHANGED NotPack

\* PackFile::decode(&mut reader) of a stream found on disk
DecodeRaw ==
    /\ ppc = "raw"
    /\ decoded' = decode(stream)
    /\ ppc' = "raw_decoded"
    /\ UNCHANGED <<pack, stream, apc, astream, adecoded>>
    /\ UNCHANGED NotPack

\* pack.encode_async(&mut writer).await
EncodeAsync ==
    /\ apc = "new"
    /\ astream' = encode_async(pack)
    /\ apc' = "encoded"
    /\ UNCHANGED <<pack, adecoded, ppc, stream, decoded>>
    /\ UNCHANGED NotPack

\* PackFile::decode_async(&mut reader).await of the stream written
DecodeAsync ==
    /\ apc = "encoded"
    /\ adecoded' = decode_async(astream)
    /\ apc' = "decoded"
    /\ UNCHANGED <<pack, astream, ppc, stream, decoded>>
    /\ UNCHANGED NotPack

\* PackFile::decode_async(&mut reader).await of a stream found on disk
DecodeAsyncRaw ==
    /\ apc = "raw"
    /\ adecoded' = decode_async(astream)
    /\ apc' = "raw_decoded"
    /\ UNCHANGED <<pack, astream, ppc, stream, decoded>>
    /\ UNCHANGED NotPack

NextPack ==
    \/ Encode
    \/ Decode
    \/ DecodeRaw
    \/ EncodeAsync
    \/ DecodeAsync
    \/ DecodeAsyncRaw

(***************************************************************************)
(* The interactive session, cut_interactive (cut.rs).                      *)
(***************************************************************************)
S_exit    == <<"e", "x", "i", "t">>
S_quit    == <<"q", "u", "i", "t">>
S_help    == <<"h", "e", "l", "p">>
S_matches == <<"m", "a", "t", "c", "h", "e", "s">>
S_cues    == <<"c", "u", "e", "s">>
S_add     == <<"a", "d", "d">>
S_remove  == <<"r", "e", "m", "o", "v", "e">>
S_rem     == <<"r", "e", "m">>
S_del     == <<"d", "e", "l">>
S_delete  == <<"d", "e", "l", "e", "t", "e">>
S_inspect == <<"i", "n", "s", "p", "e", "c", "t">>
S_key     == <<"k", "e", "y">>
S_keyframe == <<"k", "e", "y", "f", "r", "a", "m", "e">>
S_frame   == <<"f", "r", "a", "m", "e">>
S_all     == <<"a", "l", "l">>

ExitWords == {S_exit, S_quit}
RemoveWords == {S_remove, S_rem, S_del, S_delete}
KnownWords ==
    ExitWords \cup RemoveWords \cup {S_help, S_matches, S_cues, S_add, S_inspect}

\* a typed line: the words separated by one space, ended by a newline
RECURSIVE JoinWords(_)
JoinWords(ws) ==
    IF Len(ws) = 0 THEN <<>>
    ELSE IF Len(ws) = 1 THEN ws[1]
    ELSE ws[1] \o <<" ">> \o JoinWords(Tail(ws))

TypedLine(ws) == JoinWords(ws) \o <<"\n">>

\* the lines a user types in the model
Lines ==
    { TypedLine(ws) : ws \in {
        <<S_exit>>, <<S_quit>>, <<S_help>>, <<S_matches>>, <<S_cues>>,
        <<<<"z", "a", "p">>>>,
        <<S_add, <<"5">>>>, <<S_add, <<"0", ":", "2", "0">>>>,
        <<S_add, <<"x">>>>, <<S_add>>, <<S_add, <<"N", "a", "N">>>>,
        <<S_add, <<"6", "0">>>>,
        <<S_remove, <<"1">>>>, <<S_delete, <<"0">>>>, <<S_del, <<"7">>>>,
        <<S_rem, <<"x">>>>, <<S_remove>>,
        <<S_inspect, <<"5">>>>, <<S_inspect, <<"5">>, S_key>>,
        <<S_inspect, <<"6", "0">>, S_key>>,
        <<S_inspect, <<"5">>, S_all>>, <<S_inspect, <<"5">>, <<"0", ".", "5">>>>,
        <<S_inspect, <<"-", "1", "2", "0", "5">>>>,
        <<S_inspect, <<"5">>, <<"z", "z">>>>, <<S_inspect, <<"x">>>>,
        <<S_inspect>> } }

\* the total duration ffprobe reports in the model (30 s)
Durations == {Fin(3000)}

NoF == [k |-> "none", n |-> 0]
NoRange == [pts_start |-> NoF, pts_end |-> NoF, skip_frames |-> "unset",
            frame_rate_secs |-> NoF]

\* StreamRange::keyframes_betweens
keyframes_betweens(s, e) ==
    [pts_start |-> s, pts_end |-> e, skip_frames |-> "nokey", frame_rate_secs |-> NoF]

\* StreamRange::frames_betweens
frames_betweens(s, e) ==
    [pts_start |-> s, pts_end |-> e, skip_frames |-> "none", frame_rate_secs |-> NoF]

\* StreamRange::nsecs_betweens: frame_rate is 1.0/secs, kept as secs
nsecs_betweens(s, e, secs) ==
    [pts_start |-> s, pts_end |-> e, skip_frames |-> "none", frame_rate_secs |-> secs]

\* start_time and end_time of the inspect window around center, half-width w
WindowStart(center, w) ==
    LET st == FSub(center, w) IN IF FLt(st, Fin(0)) THEN Fin(0) ELSE st

WindowEnd(center, w, dur) ==
    LET en == FAdd(center, w) IN IF FGt(en, dur) THEN dur ELSE en

\* a range that ignores the mode
InspectRange_nomode(cs, center, dur) ==
    [ok |-> TRUE,
     r |-> nsecs_betweens(WindowStart(center, Fin(120000)),
                          WindowEnd(center, Fin(120000), dur), Fin(6000))]

\* the range an inspect command asks for; ok is FALSE for an invalid mode
InspectRange(cs, center, dur) ==
    IF Len(cs) <= 2
    THEN [ok |-> TRUE,
          r |-> nsecs_betweens(WindowStart(center, Fin(120000)),
                               WindowEnd(center, Fin(120000), dur), Fin(6000))]
    ELSE IF cs[3] = S_key \/ cs[3] = S_keyframe
    THEN [ok |-> TRUE,
          r |-> keyframes_betweens(WindowStart(center, Fin(2000)),
                                   WindowEnd(center, Fin(2000), dur))]
    ELSE IF cs[3] = S_frame \/ cs[3] = S_all
    THEN [ok |-> TRUE,
          r |-> frames_betweens(WindowStart(center, Fin(500)),
                                WindowEnd(center, Fin(500), dur))]
    ELSE IF parse_time(cs[3]).ok
    THEN LET scale == parse_time(cs[3]).v
         IN  [ok |-> TRUE,
              r |-> nsecs_betweens(WindowStart(center, FScale(20, scale)),
                                   WindowEnd(center, FScale(20, scale), dur), scale)]
    ELSE [ok |-> FALSE, r |-> NoRange]

\* comps: the buffer trimmed and split on single spaces
Comps(b) == Split(Trim(b), " ")

InitInteractive ==
    /\ pc = "init"
    /\ cues = <<>>
    /\ duration = Fin(0)
    /\ buf = <<>>
    /\ comps = <<>>
    /\ line = <<>>
    /\ nread = 0
    /\ range = NoRange
    /\ extract = "none"

\* ffmpeg_keyframes, ffmpeg_duration and the scratch directory succeed; the
\* two boundary cues are pushed
Start(d) ==
    /\ pc = "init"
    /\ duration' = d
    /\ cues' = <<Fin(0), d>>
    /\ pc' = "loop"
    /\ UNCHANGED <<buf, comps, line, nread, range, extract>>
    /\ UNCHANGED NotInteractive

\* one of the three fails and cut_interactive returns the error
StartFail ==
    /\ pc = "init"
    /\ pc' = "err_start"
    /\ UNCHANGED <<cues, duration, buf, comps, line, nread, range, extract>>
    /\ UNCHANGED NotInteractive

\* read_line appended l to buf and returned len > 0; comps is computed
Read(l) ==
    /\ pc = "loop"
    /\ nread < MaxLines
    /\ line' = l
    /\ nread' = nread + 1
    /\ comps' = Comps(buf \o l)
    /\ UNCHANGED NotInteractive

\* the end of the loop body: buf.clear()
EndOfBody == buf' = <<>>

\* a `continue` or `break` inside the match: buf keeps the line
SkipClear(l) == buf' = buf \o l

CmdExit(l) ==
    /\ Read(l)
    /\ comps'[1] \in ExitWords
    /\ pc' = "ok"
    /\ SkipClear(l)
    /\ UNCHANGED <<cues, duration, range, extract>>

\* a help command that also empties the cue list
CmdHelp_clears(l) ==
    /\ Read(l)
    /\ comps'[1] = S_help
    /\ EndOfBody
    /\ cues' = <<>>
    /\ UNCHANGED <<pc, duration, range, extract>>

CmdHelp(l) ==
    /\ Read(l)
    /\ comps'[1] = S_help
    /\ EndOfBody
    /\ UNCHANGED <<pc, cues, duration, range, extract>>

CmdMatches(l) ==
    /\ Read(l)
    /\ comps'[1] = S_matches
    /\ EndOfBody
    /\ UNCHANGED <<pc, cues, duration, range, extract>>

CmdCues(l) ==
    /\ Read(l)
    /\ comps'[1] = S_cues
    /\ EndOfBody
    /\ UNCHANGED <<pc, cues, duration, range, extract>>

CmdAdd(l) ==
    /\ Read(l)
    /\ comps'[1] = S_add
    /\ IF Len(comps') > 1
       THEN LET time == parse_time(comps'[2])
                cmps == [i \in 1..Len(cues) |-> PartialCmp(cues[i], time.v)]
            IN  IF ~time.ok
                THEN SkipClear(l) /\ UNCHANGED <<pc, cues>>
                ELSE \E res \in BinarySearchBy(cmps, 0, Len(cues)) :
                        IF res.t = "Panic"
                        THEN pc' = "panic_cmp" /\ SkipClear(l) /\ UNCHANGED cues
                        ELSE /\ cues' = Insert(cues, res.i, time.v)
                             /\ EndOfBody
                             /\ UNCHANGED pc
       ELSE EndOfBody /\ UNCHANGED <<pc, cues>>
    /\ UNCHANGED <<duration, range, extract>>

CmdRemove(l) ==
    /\ Read(l)
    /\ comps'[1] \in RemoveWords
    /\ IF Len(comps') > 1
       THEN LET index == UIntFromStr(comps'[2])
            IN  IF index.ok
                THEN IF index.v < Len(cues)
                     THEN cues' = Remove(cues, index.v) /\ EndOfBody /\ UNCHANGED pc
                     ELSE \* Vec::remove panics when index >= len
                          pc' = "panic_remove" /\ SkipClear(l) /\ UNCHANGED cues
                ELSE EndOfBody /\ UNCHANGED <<pc, cues>>
       ELSE EndOfBody /\ UNCHANGED <<pc, cues>>
    /\ UNCHANGED <<duration, range, extract>>

\* an extraction whose failure is logged and the loop goes on
AfterExtract_ignore(tool) == "loop"

\* lines 306 and 308, `create_dir_all(..).await?` and
\* `ffmpeg_extract_frames(..).await?`: where the session goes next
AfterExtract(tool) == IF tool = "ok" THEN "loop" ELSE "err_inspect"

\* tool is the outcome of recreating the scratch directory and running ffmpeg
CmdInspect(l, tool) ==
    /\ Read(l)
    /\ comps'[1] = S_inspect
    /\ IF Len(comps') > 1 /\ parse_time(comps'[2]).ok
       THEN LET rg == InspectRange(comps', parse_time(comps'[2]).v, duration)
            IN  IF ~rg.ok
                THEN tool = "ok" /\ SkipClear(l) /\ UNCHANGED <<pc, range, extract>>
                ELSE /\ range' = rg.r
                     /\ extract' = tool
                     /\ pc' = AfterExtract(tool)
                     /\ IF pc' = "loop" THEN EndOfBody ELSE SkipClear(l)
       ELSE tool = "ok" /\ EndOfBody /\ UNCHANGED <<pc, range, extract>>
    /\ UNCHANGED <<cues, duration>>

CmdInvalid(l) ==
    /\ Read(l)
    /\ comps'[1] \notin KnownWords
    /\ EndOfBody
    /\ UNCHANGED <<pc, cues, duration, range, extract>>

\* read_line returned 0: end of input
Eof ==
    /\ pc = "loop"
    /\ pc' = "ok"
    /\ UNCHANGED <<cues, duration, buf, comps, line, nread, range, extract>>
    /\ UNCHANGED NotInteractive

\* read_line failed
StdinError ==
    /\ pc = "loop"
    /\ pc' = "err_stdin"
    /\ UNCHANGED <<cues, duration, buf, comps, line, nread, range, extract>>
    /\ UNCHANGED NotInteractive

\* create_dir_all fails; the tool cannot be started; it ends without an exit
\* code; it exits with a code other than 0
ToolOutcomes == {"ok", "mkdir_failed", "spawn_failed", "no_code", "exit_nonzero"}

NextInteractive ==
    \/ \E d \in Durations : Start(d)
    \/ StartFail
    \/ \E l \in Lines : CmdExit(l)
    \/ \E l \in Lines : CmdHelp(l)
    \/ \E l \in Lines : CmdMatches(l)
    \/ \E l \in Lines : CmdCues(l)
    \/ \E l \in Lines : CmdAdd(l)
    \/ \E l \in Lines : CmdRemove(l)
    \/ \E l \in Lines, tool \in ToolOutcomes : CmdInspect(l, tool)
    \/ \E l \in Lines : CmdInvalid(l)
    \/ Eof
    \/ StdinError

(***************************************************************************)
(* The fingerprint cache updater, update_fingerprints (fingerprint.rs).    *)
(***************************************************************************)
\* the characters of the model in byte order, for Ord on strings
AsciiOrder ==
    <<"\n", " ", "+", "-", ".", "/",
      "0", "1", "2", "3", "4", "5", "6", "7", "8", "9", ":", "=",
      "A", "B", "C", "D", "E", "F", "G", "H", "I", "J", "K", "L", "M",
      "N", "O", "P", "Q", "R", "S", "T", "U", "V", "W", "X", "Y", "Z",
      "a", "b", "c", "d", "e", "f", "g", "h", "i", "j", "k", "l", "m",
      "n", "o", "p", "q", "r", "s", "t", "u", "v", "w", "x", "y", "z">>

CharOrd(c) == CHOOSE i \in 1..Len(AsciiOrder) : AsciiOrder[i] = c

\* String::cmp: lexicographic by bytes
RECURSIVE StrCmp(_, _)
StrCmp(a, b) ==
    IF a = <<>> /\ b = <<>> THEN "Equal"
    ELSE IF a = <<>> THEN "Less"
    ELSE IF b = <<>> THEN "Greater"
    ELSE IF CharOrd(Head(a)) < CharOrd(Head(b)) THEN "Less"
    ELSE IF CharOrd(Head(a)) > CharOrd(Head(b)) THEN "Greater"
    ELSE StrCmp(Tail(a), Tail(b))

\* the input directories, in path order, and the file names each can hold
DirSeq == <<"d1", "d2">>
Dirs == {DirSeq[i] : i \in 1..Len(DirSeq)}
DirOrd(d) == CHOOSE i \in 1..Len(DirSeq) : DirSeq[i] = d
DirFileNames == [d \in Dirs |-> IF d = "d1" THEN {<<"a">>, <<"b">>} ELSE {<<"b">>}]

\* PathBuf::cmp on the sidecar paths d.pck
PathCmp(p, q) ==
    IF DirOrd(p) = DirOrd(q) THEN "Equal"
    ELSE IF DirOrd(p) < DirOrd(q) THEN "Less" ELSE "Greater"

\* the fingerprint the Decoder/Fingerprinter computes for a file
FpOf(name) ==
    IF name = <<"a">> THEN <<U32(0, 1)>> ELSE <<U32(258, 772), U32(0, 2)>>

\* the sequences of distinct elements of S: a directory listing that was
\* read in any order and may have been cut short by an error
RECURSIVE Listings(_)
Listings(S) ==
    {<<>>} \cup UNION { { <<x>> \o q : q \in Listings(S \ {x}) } : x \in S }

\* the orders in which the listing futures of the directories complete
RECURSIVE Orders(_)
Orders(S) ==
    IF S = {} THEN {<<>>}
    ELSE UNION { { <<x>> \o q : q \in Orders(S \ {x}) } : x \in S }

\* packs.sort_by(path): the loaded packs in path order
RECURSIVE SortedPacks(_, _)
SortedPacks(i, loaded) ==
    IF i > Len(DirSeq) THEN <<>>
    ELSE (IF loaded[DirSeq[i]].t = "Ok"
          THEN <<[path |-> DirSeq[i], pack |-> loaded[DirSeq[i]].pack]>>
          ELSE <<>>) \o SortedPacks(i + 1, loaded)

NoFile == [exists |-> FALSE, bytes |-> <<>>]
NoPack == [path |-> "none", pack |-> <<>>]

\* the entries a sidecar file holds: what decode_async reads from it
Held(f) ==
    IF f.exists /\ decode_async(f.bytes).t = "Ok"
    THEN decode_async(f.bytes).pack ELSE <<>>

\* a write of `new` at offset 0 of a file opened without truncation
Overwrite(old, new) == new \o SubSeq(old, Len(new) + 1, Len(old))

\* the packs a sidecar may hold when the first call begins, sorted by name:
\* the entry of file a; the entries of a file 0 that is gone and of file a
InitialPacks ==
    { <<[name |-> <<"a">>, fp |-> FpOf(<<"a">>)]>>,
      <<[name |-> <<"0">>, fp |-> <<U32(0, 7), U32(0, 8)>>],
        [name |-> <<"a">>, fp |-> FpOf(<<"a">>)]>> }

InitUpdate ==
    /\ upc = "idle"
    /\ dirFiles \in { f \in [Dirs -> SUBSET {<<"a">>, <<"b">>}] :
                        \A d \in Dirs : f[d] \subseteq DirFileNames[d] }
    /\ sidecar \in { f \in [Dirs -> {NoFile} \cup
                                   {[exists |-> TRUE, bytes |-> encode_async(pk)] :
                                      pk \in InitialPacks}] :
                        f["d2"] = NoFile }
    /\ files = <<>>
    /\ packs = <<>>
    /\ cur = NoPack
    /\ todo = <<>>
    /\ npass = 0
    /\ held = [d \in Dirs |-> <<>>]
    /\ calls = <<>>
    /\ wrote = "none"

\* lines 20-83: for every input the sidecar is loaded if it exists and the
\* directory is listed; failed loads are dropped and the packs sorted by path
BeginPass ==
    /\ upc = "idle"
    /\ npass < MaxPasses
    /\ LET read == [d \in Dirs |-> decode_async(sidecar[d].bytes)]
       IN  \E io_failed \in SUBSET Dirs,
              listing \in [Dirs -> UNION {Listings(dirFiles[d]) : d \in Dirs}],
              order \in Orders(Dirs) :
              LET loaded == [d \in Dirs |->
                                IF ~sidecar[d].exists THEN NoResult
                                ELSE IF d \in io_failed THEN PackErr("Io", 0)
                                ELSE read[d]]
              IN  /\ \A d \in Dirs : listing[d] \in Listings(dirFiles[d])
                  /\ files' = [i \in 1..Len(order) |->
                                  [dir |-> order[i], list |-> listing[order[i]]]]
                  /\ packs' = SortedPacks(1, loaded)
                  /\ held' = [d \in Dirs |->
                                 IF sidecar[d].exists /\ read[d].t = "Ok"
                                 THEN read[d].pack ELSE <<>>]
    /\ upc' = "dirs"
    /\ calls' = <<>>
    /\ wrote' = "none"
    /\ UNCHANGED <<dirFiles, sidecar, cur, todo, npass>>
    /\ UNCHANGED NotUpdate

\* lines 98-118: the next directory; an empty listing is skipped, otherwise
\* its loaded pack is taken out of packs, or a default pack is made
VisitDir ==
    /\ upc = "dirs"
    /\ files # <<>>
    /\ LET dir == Head(files)
           cmps == [i \in 1..Len(packs) |-> PathCmp(packs[i].path, dir.dir)]
       IN  IF Len(dir.list) <= 0
           THEN UNCHANGED <<upc, packs, cur, todo>>
           ELSE /\ \E res \in BinarySearchBy(cmps, 0, Len(packs)) :
                      IF res.t = "Ok"
                      THEN cur' = packs[res.i + 1] /\ packs' = Remove(packs, res.i)
                      ELSE cur' = [path |-> dir.dir, pack |-> <<>>] /\ UNCHANGED packs
                /\ todo' = dir.list
                /\ upc' = "files"
    /\ files' = Tail(files)
    /\ calls' = <<>>
    /\ wrote' = "none"
    /\ UNCHANGED <<dirFiles, sidecar, npass, held>>
    /\ UNCHANGED NotUpdate

\* a failed fingerprint that leaves an entry without words in the pack
FingerprintResult_placeholder(pk, i, name, outcome) ==
    Insert(pk, i, [name |-> name, fp |-> IF outcome = "ok" THEN FpOf(name) ELSE <<>>])

\* lines 133-144: the pack after calculate_fingerprint returned for a file
\* that has no entry; Ok inserts the entry at index i, Err is logged
FingerprintResult(pk, i, name, outcome) ==
    IF outcome = "ok" THEN Insert(pk, i, [name |-> name, fp |-> FpOf(name)]) ELSE pk

\* lines 119-160: one file of the directory; fp is the outcome of
\* calculate_fingerprint, which is called when the search finds no entry
ProcessFile(fp) ==
    /\ upc = "files"
    /\ todo # <<>>
    /\ LET name == Head(todo)
           cmps == [i \in 1..Len(cur.pack) |-> StrCmp(cur.pack[i].name, name)]
       IN  \E res \in BinarySearchBy(cmps, 0, Len(cur.pack)) :
              IF res.t = "Ok"
              THEN fp = "ok" /\ UNCHANGED <<cur, calls>>
              ELSE /\ cur' = [cur EXCEPT !.pack = FingerprintResult(@, res.i, name, fp)]
                   /\ calls' = Append(calls, [name |-> name, outcome |-> fp])
    /\ todo' = Tail(todo)
    /\ UNCHANGED <<upc, dirFiles, sidecar, files, packs, npass, held, wrote>>
    /\ UNCHANGED NotUpdate

\* a pass that returns the error of a sidecar it could not write
AfterWrite_abort(io) == IF io = "ok" THEN "dirs" ELSE "err"

\* lines 169-180: a failed open or write is logged; the loop over the
\* directories goes on
AfterWrite(io) == "dirs"

\* lines 161-181: the sidecar is opened (created if missing, not truncated)
\* and the pack written from offset 0; the open can fail, and the write can
\* fail after k entries.  The local pack goes out of scope.
WritePack(io, k) ==
    /\ upc = "files"
    /\ todo = <<>>
    /\ LET old == sidecar[cur.path].bytes
       IN  IF io = "open_failed"
           THEN k = 0 /\ UNCHANGED sidecar
           ELSE IF io = "write_failed"
           THEN /\ k < Len(cur.pack)
                /\ sidecar' = [sidecar EXCEPT ![cur.path] =
                      [exists |-> TRUE,
                       bytes |-> Overwrite(old, encode_async(SubSeq(cur.pack, 1, k)))]]
           ELSE /\ k = Len(cur.pack)
                /\ sidecar' = [sidecar EXCEPT ![cur.path] =
                      [exists |-> TRUE, bytes |-> Overwrite(old, encode_async(cur.pack))]]
    /\ upc' = AfterWrite(io)
    /\ cur' = NoPack
    /\ wrote' = io
    /\ UNCHANGED <<dirFiles, files, packs, todo, npass, held, calls>>
    /\ UNCHANGED NotUpdate

\* lines 183-184: every directory was visited; Ok(()) is returned
EndPass ==
    /\ upc = "dirs"
    /\ files = <<>>
    /\ upc' = "idle"
    /\ npass' = npass + 1
    /\ packs' = <<>>
    /\ calls' = <<>>
    /\ wrote' = "none"
    /\ UNCHANGED <<dirFiles, sidecar, files, cur, todo, held>>
    /\ UNCHANGED NotUpdate

\* between two calls a file appears in, or disappears from, a directory
AddFile(d, f) ==
    /\ upc = "idle"
    /\ npass >= 1
    /\ npass < MaxPasses
    /\ f \in DirFileNames[d] \ dirFiles[d]
    /\ dirFiles' = [dirFiles EXCEPT ![d] = @ \cup {f}]
    /\ UNCHANGED <<upc, sidecar, files, packs, cur, todo, npass, held, calls, wrote>>
    /\ UNCHANGED NotUpdate

RemoveFile(d, f) ==
    /\ upc = "idle"
    /\ npass >= 1
    /\ npass < MaxPasses
    /\ f \in dirFiles[d]
    /\ dirFiles' = [dirFiles EXCEPT ![d] = @ \ {f}]
    /\ UNCHANGED <<upc, sidecar, files, packs, cur, todo, npass, held, calls, wrote>>
    /\ UNCHANGED NotUpdate

NextUpdate ==
    \/ BeginPass
    \/ VisitDir
    \/ \E fp \in {"ok", "failed"} : ProcessFile(fp)
    \/ \E io \in {"ok", "open_failed", "write_failed"}, k \in 0..2 : WritePack(io, k)
    \/ EndPass
    \/ \E d \in Dirs, f \in {<<"a">>, <<"b">>} : AddFile(d, f)
    \/ \E d \in Dirs, f \in {<<"a">>, <<"b">>} : RemoveFile(d, f)

(***************************************************************************)
(* The match engine, cut_matches (cut.rs).                                 *)
(*                                                                         *)
(* A future pushed into a FuturesUnordered runs only while the stream is   *)
(* polled: the inclusion loads run during the first while loop, the        *)
(* exclusion loads during the second, the matches during the two collects. *)
(* Completion order within one stream is not determined.                   *)
(***************************************************************************)
Slot(kind, p) == [kind |-> kind, p |-> p]
Entry(kind, p, j) == [kind |-> kind, p |-> p, j |-> j]

IncSlots == {Slot("inc", p) : p \in 1..MaxIncPacks}
ExcSlots == {Slot("exc", p) : p \in 1..MaxExcPacks}
AllSlots == IncSlots \cup ExcSlots

\* the entries decode_async returns for the pack in a slot: two for the first
\* inclusion pack, one for every other pack; an entry's name is its identity
EntriesOf(s) ==
    IF s.kind = "inc" /\ s.p = 1
    THEN <<Entry(s.kind, s.p, 1), Entry(s.kind, s.p, 2)>>
    ELSE <<Entry(s.kind, s.p, 1)>>

AllEntries == UNION { {EntriesOf(s)[j] : j \in 1..Len(EntriesOf(s))} : s \in AllSlots }

\* the segments match_fingerprints returns for an entry against the input:
\* none, one or two, with equal scores across entries
SegsOf(e) ==
    IF (e.p + e.j) % 3 = 0 THEN <<[score |-> 5, start |-> 10 * e.p + e.j]>>
    ELSE IF (e.p + e.j) % 3 = 1 THEN <<>>
    ELSE <<[score |-> 5, start |-> 10 * e.p + e.j],
           [score |-> 3, start |-> 10 * e.p + e.j + 5]>>

\* a call that returns the error whatever the input fingerprint gave
AfterInputFp_reject(outcome) == "err"

\* a call that goes on to the loads whatever the input fingerprint gave
AfterInputFp_swallow(outcome) == "inc_loads"

\* line 70, `calculate_fingerprint(..).await?`: where the call goes next
AfterInputFp(outcome) == IF outcome = "ok" THEN "inc_loads" ELSE "err"

\* a loop that returns the error of a failed load
AfterLoad_abort(phase, outcome) == IF outcome = "ok" THEN phase ELSE "err"

\* lines 114-116 and 146-148: a failed load is logged, the loop goes on
AfterLoad(phase, outcome) == phase

\* lines 102-109 and 134-141: what a match future returns for entry e
MatchResult(e, outcome) ==
    IF outcome = "ok" THEN [name |-> e, segs |-> SegsOf(e)]
    ELSE [name |-> e, segs |-> <<>>]

\* a flattening that keeps only the first segment of every entry
RECURSIVE Flatten_heads(_)
Flatten_heads(rs) ==
    IF rs = <<>> THEN <<>>
    ELSE (IF Head(rs).segs = <<>> THEN <<>>
          ELSE <<[name |-> Head(rs).name, seg |-> Head(rs).segs[1]]>>)
         \o Flatten_heads(Tail(rs))

\* lines 163-182: every segment tagged with the name of its entry
RECURSIVE Flatten(_)
Flatten(rs) ==
    IF rs = <<>> THEN <<>>
    ELSE [i \in 1..Len(Head(rs).segs) |->
             [name |-> Head(rs).name, seg |-> Head(rs).segs[i]]]
         \o Flatten(Tail(rs))

\* a sort that leaves the list as it was collected
SortUnstable_asis(xs) == {xs}

\* lines 184-187, sort_unstable_by on the score: the orders of xs that
\* ascend by score; elements of equal score may come out in any order
RECURSIVE SortUnstable(_)
SortUnstable(xs) ==
    IF xs = <<>> THEN {<<>>}
    ELSE UNION { { <<xs[i]>> \o rest : rest \in SortUnstable(Remove(xs, i - 1)) } :
                 i \in { k \in 1..Len(xs) :
                           \A m \in 1..Len(xs) : xs[k].seg.score <= xs[m].seg.score } }

LoadInit(n, m) ==
    [s \in AllSlots |->
        IF (s.kind = "inc" /\ s.p <= n) \/ (s.kind = "exc" /\ s.p <= m)
        THEN "pushed" ELSE "unused"]

\* lines 29-67: one load future pushed per pack given; none has run yet
InitMatches ==
    /\ mpc = "start"
    /\ ninc \in 0..MaxIncPacks
    /\ nexc \in 0..MaxExcPacks
    /\ fpst = "none"
    /\ load = LoadInit(ninc, nexc)
    /\ mst = [e \in AllEntries |-> "none"]
    /\ inc_segments = <<>>
    /\ exc_segments = <<>>
    /\ inc_out = <<>>
    /\ exc_out = <<>>

\* the loads of `kind` are polled for the first time
Polled(kind) ==
    [s \in AllSlots |-> IF load[s] = "pushed" /\ s.kind = kind THEN "running"
                        ELSE load[s]]

\* line 70: the input is fingerprinted; on failure the call returns the
\* error; then the first while loop starts polling the inclusion loads
FingerprintInput(outcome) ==
    /\ mpc = "start"
    /\ fpst' = outcome
    /\ mpc' = AfterInputFp(outcome)
    /\ load' = IF mpc' = "inc_loads" THEN Polled("inc") ELSE load
    /\ UNCHANGED <<ninc, nexc, mst, inc_segments, exc_segments, inc_out, exc_out>>
    /\ UNCHANGED NotMatches

\* a loop that pushes the match futures of a pack whatever its load gave
LoadDone_always(s, outcome) ==
    /\ mpc = (IF s.kind = "inc" THEN "inc_loads" ELSE "exc_loads")
    /\ load[s] = "running"
    /\ load' = [load EXCEPT ![s] = outcome]
    /\ mst' = [e \in AllEntries |->
                  IF e.kind = s.kind /\ e.p = s.p THEN "pushed" ELSE mst[e]]
    /\ mpc' = mpc
    /\ UNCHANGED <<ninc, nexc, fpst, inc_segments, exc_segments, inc_out, exc_out>>
    /\ UNCHANGED NotMatches

\* lines 87-118 and 119-150, one iteration: a load completes; for an Ok one
\* match future is pushed per entry
LoadDone(s, outcome) ==
    /\ mpc = (IF s.kind = "inc" THEN "inc_loads" ELSE "exc_loads")
    /\ load[s] = "running"
    /\ load' = [load EXCEPT ![s] = outcome]
    /\ mst' = [e \in AllEntries |->
                  IF outcome = "ok" /\ e.kind = s.kind /\ e.p = s.p
                  THEN "pushed" ELSE mst[e]]
    /\ mpc' = AfterLoad(mpc, outcome)
    /\ UNCHANGED <<ninc, nexc, fpst, inc_segments, exc_segments, inc_out, exc_out>>
    /\ UNCHANGED NotMatches

\* include_fgs.next() returned None: the second while loop polls the
\* exclusion loads
IncLoadsDone ==
    /\ mpc = "inc_loads"
    /\ \A s \in IncSlots : load[s] # "running"
    /\ load' = Polled("exc")
    /\ mpc' = "exc_loads"
    /\ UNCHANGED <<ninc, nexc, fpst, mst, inc_segments, exc_segments, inc_out, exc_out>>
    /\ UNCHANGED NotMatches

\* exclude_fgs.next() returned None: line 156 starts collecting
ExcLoadsDone ==
    /\ mpc = "exc_loads"
    /\ \A s \in ExcSlots : load[s] # "running"
    /\ mpc' = "inc_matches"
    /\ UNCHANGED <<ninc, nexc, fpst, load, mst, inc_segments, exc_segments,
                   inc_out, exc_out>>
    /\ UNCHANGED NotMatches

\* lines 156-157: a pushed match future is polled and runs to its end
\* (block_in_place does not yield); its result is the next one collected
RunMatch(e, outcome) ==
    /\ mpc = (IF e.kind = "inc" THEN "inc_matches" ELSE "exc_matches")
    /\ mst[e] = "pushed"
    /\ mst' = [mst EXCEPT ![e] = outcome]
    /\ IF e.kind = "inc"
       THEN /\ inc_segments' = Append(inc_segments, MatchResult(e, outcome))
            /\ UNCHANGED exc_segments
       ELSE /\ exc_segments' = Append(exc_segments, MatchResult(e, outcome))
            /\ UNCHANGED inc_segments
    /\ UNCHANGED <<mpc, ninc, nexc, fpst, load, inc_out, exc_out>>
    /\ UNCHANGED NotMatches

\* line 156 is complete; line 157 collects the exclusion matches
IncCollected ==
    /\ mpc = "inc_matches"
    /\ \A e \in AllEntries : e.kind = "inc" => mst[e] # "pushed"
    /\ mpc' = "exc_matches"
    /\ UNCHANGED <<ninc, nexc, fpst, load, mst, inc_segments, exc_segments,
                   inc_out, exc_out>>
    /\ UNCHANGED NotMatches

\* a flattening and sorting that does not wait for the exclusion matches
Finish_early ==
    /\ mpc = "exc_matches"
    /\ inc_out' \in SortUnstable(Flatten(inc_segments))
    /\ exc_out' \in SortUnstable(Flatten(exc_segments))
    /\ mpc' = "ok"
    /\ UNCHANGED <<ninc, nexc, fpst, load, mst, inc_segments, exc_segments>>
    /\ UNCHANGED NotMatches

\* lines 163-189: both collections are flattened and sorted; Ok is returned
Finish ==
    /\ mpc = "exc_matches"
    /\ \A e \in AllEntries : e.kind = "exc" => mst[e] # "pushed"
    /\ inc_out' \in SortUnstable(Flatten(inc_segments))
    /\ exc_out' \in SortUnstable(Flatten(exc_segments))
    /\ mpc' = "ok"
    /\ UNCHANGED <<ninc, nexc, fpst, load, mst, inc_segments, exc_segments>>
    /\ UNCHANGED NotMatches

Outcomes == {"ok", "failed"}

NextMatches ==
    \/ \E o \in Outcomes : FingerprintInput(o)
    \/ \E s \in AllSlots, o \in Outcomes : LoadDone(s, o)
    \/ IncLoadsDone
    \/ ExcLoadsDone
    \/ \E e \in AllEntries, o \in Outcomes : RunMatch(e, o)
    \/ IncCollected
    \/ Finish

(***************************************************************************)
(* usize (audio_correlation.rs): 64 bits, most significant first.          *)
(***************************************************************************)
UsizeBits == 64

\* the bits of a usize the model's integers can hold
LowBits == UsizeBits \div 4

\* a small number (below 2^LowBits) as a usize
Usize(n) ==
    [i \in 1..UsizeBits |->
        IF i <= UsizeBits - LowBits THEN 0 ELSE (n \div 2^(UsizeBits - i)) % 2]

RECURSIVE NatOfAcc(_, _)
NatOfAcc(b, acc) == IF b = <<>> THEN acc ELSE NatOfAcc(Tail(b), 2 * acc + Head(b))

\* the number a usize below 2^LowBits holds
NatOf(b) == NatOfAcc(SubSeq(b, UsizeBits - LowBits + 1, UsizeBits), 0)

\* 2^k for k < UsizeBits, 2^k - 1 for k <= UsizeBits
Pow2(k) == [i \in 1..UsizeBits |-> IF i = UsizeBits - k THEN 1 ELSE 0]
LowOnes(k) == [i \in 1..UsizeBits |-> IF i > UsizeBits - k THEN 1 ELSE 0]

\* a < b on usize
ULt(a, b) ==
    \E i \in 1..UsizeBits : a[i] < b[i] /\ \A j \in 1..(i - 1) : a[j] = b[j]

\* a / 2
Shr1(a) == <<0>> \o SubSeq(a, 1, UsizeBits - 1)

\* how a call ends: with a value, with a panic, or never
Returned(v) == [t |-> "Ok", v |-> v]
Panicked == [t |-> "Panic", v |-> <<>>]
Diverged == [t |-> "Diverge", v |-> <<>>]

\* a build with overflow checks panics on overflow, one without wraps
Builds == {"debug", "release"}

(***************************************************************************)
(* next_power_of_two, zero_pad, compare_segments (audio_correlation.rs).   *)
(***************************************************************************)
\* while power < n { power *= 2; } with power = 2^k: the multiplication
\* overflows when the high bit of power is set (k = UsizeBits - 1); a build
\* with overflow checks panics there, another wraps power to 0, and 0 * 2 = 0
\* is below n for ever
RECURSIVE next_power_of_two_while(_, _, _)
next_power_of_two_while(k, n, b) ==
    IF ~ULt(Pow2(k), n) THEN Returned(Pow2(k))
    ELSE IF k = UsizeBits - 1
         THEN (IF b = "debug" THEN Panicked ELSE Diverged)
         ELSE next_power_of_two_while(k + 1, n, b)

\* a search that starts at 2
next_power_of_two_from2(n, b) == next_power_of_two_while(1, n, b)

\* let mut power = 1
next_power_of_two(n, b) == next_power_of_two_while(0, n, b)

Complex(re, im) == [re |-> re, im |-> im]

\* a padding that puts the zeros in front
zero_pad_front(input, length) ==
    IF Len(input) > length THEN Panicked
    ELSE Returned([i \in 1..length |->
                      IF i > length - Len(input)
                      THEN Complex(input[i - (length - Len(input))], 0)
                      ELSE Complex(0, 0)])

zero_pad(input, length) ==
    IF Len(input) > length THEN Panicked
    ELSE Returned([i \in 1..length |->
                      IF i <= Len(input) THEN Complex(input[i], 0)
                      ELSE Complex(0, 0)])

RECURSIVE SumTo(_, _)
SumTo(f, n) == IF n = 0 THEN 0 ELSE f[n] + SumTo(f, n - 1)

\* lines 47-57, in exact arithmetic: the inverse transform of
\* FFT(x)[i] * conj(FFT(y)[i]) is, at index k (0-based), fft_len times the
\* circular correlation sum over n of x[(n + k) mod fft_len] * y[n]
CrossCorrelation(x, y, k) ==
    LET len == Len(x)
    IN  Complex(len * SumTo([n \in 1..len |->
                                 x[((n - 1 + k) % len) + 1].re * y[n].re], len), 0)

\* a scan that also moves to an equal value
RECURSIVE MaxScan_last(_, _, _, _)
MaxScan_last(real_part, i, max_index, max_value) ==
    IF i >= Len(real_part) THEN [index |-> max_index, value |-> max_value]
    ELSE IF real_part[i + 1] >= max_value
         THEN MaxScan_last(real_part, i + 1, i, real_part[i + 1])
         ELSE MaxScan_last(real_part, i + 1, max_index, max_value)

\* lines 66-73: the first index holding the largest value above 0.0
RECURSIVE MaxScan(_, _, _, _)
MaxScan(real_part, i, max_index, max_value) ==
    IF i >= Len(real_part) THEN [index |-> max_index, value |-> max_value]
    ELSE IF real_part[i + 1] > max_value
         THEN MaxScan(real_part, i + 1, i, real_part[i + 1])
         ELSE MaxScan(real_part, i + 1, max_index, max_value)

\* line 76
NormalizedIndex(max_index, segment_len) == max_index - (segment_len - 1)

compare_segments(segment, reference, b) ==
    LET segment_len == Len(segment)
        reference_len == Len(reference)
        underflow == segment_len + reference_len = 0
        cross_correlation_len ==
            IF underflow THEN LowOnes(UsizeBits)
            ELSE Usize(segment_len + reference_len - 1)
        fft_len == next_power_of_two(cross_correlation_len, b)
    IN  IF underflow /\ b = "debug" THEN Panicked
        ELSE IF fft_len.t # "Ok" THEN fft_len
        ELSE LET flen == NatOf(fft_len.v)
                 segment_padded == zero_pad(segment, flen)
                 reference_padded == zero_pad(reference, flen)
             IN  IF segment_padded.t # "Ok" THEN segment_padded
                 ELSE IF reference_padded.t # "Ok" THEN reference_padded
                 ELSE LET real_part ==
                              [i \in 1..NatOf(cross_correlation_len) |->
                                  CrossCorrelation(segment_padded.v,
                                                   reference_padded.v, i - 1).re
                                      \div flen]
                          m == MaxScan(real_part, 0, 0, 0)
                      IN  Returned([index |-> NormalizedIndex(m.index, segment_len),
                                    value |-> m.value])

\* calculate_time_difference, with times in thousandths of a second:
\* time_diff = index / sample_rate, then (first - second) / 2.0 - time_diff
calculate_time_difference(index, sample_rate, duration_first, duration_second) ==
    LET time_diff == (1000 * index) \div sample_rate
    IN  (duration_first - duration_second) \div 2 - time_diff

\* the two calls of test_calculate_time_difference: compare_segments, then
\* calculate_time_difference on its index and on len / sample_rate of each
time_difference_of(first_segment, second_segment, sample_rate, b) ==
    LET cmp == compare_segments(first_segment, second_segment, b)
        duration_first == (1000 * Len(first_segment)) \div sample_rate
        duration_second == (1000 * Len(second_segment)) \div sample_rate
    IN  IF cmp.t # "Ok" THEN cmp
        ELSE Returned([index |-> cmp.v.index,
                       time_diff |-> calculate_time_difference(
                           cmp.v.index, sample_rate, duration_first, duration_second)])

(***************************************************************************)
(* DurationDisplay (duration_util.rs).                                     *)
(***************************************************************************)
\* "{}" of a usize: its decimal digits
RECURSIVE Decimal(_)
Decimal(n) ==
    IF n < 10 THEN <<Digits[n + 1]>> ELSE Append(Decimal(n \div 10), Digits[(n % 10) + 1])

\* "{:02}" of a usize: at least two digits
Decimal02(n) == IF n < 10 THEN <<"0">> \o Decimal(n) ELSE Decimal(n)

\* f32::round (half away from zero) then `as usize` (negative and NaN give 0)
\* of a time in hundredths
RoundAsUsize(t) ==
    IF t.k # "fin" \/ t.n < 0 THEN 0 ELSE (t.n + 50) \div 100

\* (fract() * 100.0) as usize, of a time that is a whole number of hundredths
FractionAsUsize(t) ==
    IF t.k # "fin" \/ t.n < 0 THEN 0 ELSE t.n % 100

\* DurationDisplay::fmt
fmt(t) ==
    LET total_secs == RoundAsUsize(t)
        hours == total_secs \div 3600
        rem == total_secs % 3600
        minutes == rem \div 60
        seconds == rem % 60
        fraction == FractionAsUsize(t)
    IN  Decimal(hours) \o <<":">> \o Decimal02(minutes) \o <<":">>
            \o Decimal02(seconds) \o <<".">> \o Decimal02(fraction)

(***************************************************************************)
(* One call of a free function on arguments drawn from bounded sets.       *)
(***************************************************************************)
SecTexts ==
    { <<"9", "0">>, <<"3", "0">>, <<"0", "3", ".", "5">>, <<"N", "a", "N">>,
      <<"-", "5">>, <<"x">>, <<>> }
MinTexts == { <<"2">>, <<"0", "2">>, <<"7", "5">>, <<"x">>, <<>> }
HourTexts == { <<"0", "1">>, <<"x">> }

\* texts of one to four components
TimeTexts ==
    LET two == {m \o <<":">> \o t : m \in MinTexts, t \in SecTexts}
        three == {h \o <<":">> \o t : h \in HourTexts, t \in two}
        four == {<<"4", ":">> \o t : t \in three}
    IN  SecTexts \cup two \cup three \cup four

\* small numbers, and the numbers around large powers of two
UsizeInputs ==
    {Usize(n) : n \in 0..17}
    \cup {Pow2(k) : k \in {31, 62, 63}}
    \cup {LowOnes(k) : k \in {31, 63, 64}}
    \cup {[Pow2(k) EXCEPT ![UsizeBits] = 1] : k \in {31, 62, 63}}

Samples == {-1, 0, 1, 2}

Signals == UNION {[1..n -> Samples] : n \in 0..MaxSignal}

\* s after d samples of silence
Delayed(s, d) == [i \in 1..d |-> 0] \o s

\* the sample rates of the two tests, and 1
SampleRates == {1, 2, 4}

\* the segments of test_calculate_time_difference
TestFirst == <<1, 2, 3, 4, 7, 0, 0, 0, 9, 10, 3, 2>>
TestSecond == <<9, 10, 3, 2, 1, 8, 18, 4, 63, 52, 53, 0, 0, 10>>

\* a signal against itself delayed, either way round, and the test's pair
AlignedPairs ==
    {<<s, Delayed(s, d)>> : s \in Signals \ {<<>>}, d \in 0..MaxSignal}
    \cup {<<Delayed(s, d), s>> : s \in Signals \ {<<>>}, d \in 0..MaxSignal}
    \cup {<<TestFirst, TestSecond>>}

\* times in hundredths of a second: the first three seconds, the turns of
\* the minute and of the hour, a negative one, and NaN
DisplayTimes ==
    {Fin(n) : n \in 0..300} \cup {Fin(n) : n \in 5940..6060}
    \cup {Fin(n) : n \in 359940..360060} \cup {Fin(372350), Fin(-25), NaN}

InitFunctions ==
    /\ fpc = "call"
    /\ build \in Builds
    /\ ret = Diverged
    /\ \/ callee = "parse_time" /\ arg \in {[time |-> t] : t \in TimeTexts}
       \/ callee = "next_power_of_two" /\ arg \in {[n |-> n] : n \in UsizeInputs}
       \/ /\ callee = "zero_pad"
          /\ arg \in {[input |-> s, length |-> l] :
                          s \in Signals, l \in 0..(MaxSignal + 1)}
       \/ /\ callee = "compare_segments"
          /\ arg \in {[segment |-> s, reference |-> r] :
                          s \in Signals, r \in Signals}
       \/ callee = "fmt" /\ arg \in {[t |-> t] : t \in DisplayTimes}
       \/ /\ callee = "calculate_time_difference"
          /\ arg \in {[segment |-> p[1], reference |-> p[2], sample_rate |-> r] :
                          p \in AlignedPairs, r \in SampleRates}

CallParseTime ==
    /\ fpc = "call"
    /\ callee = "parse_time"
    /\ ret' = parse_time(arg.time)
    /\ fpc' = "done"
    /\ UNCHANGED <<callee, arg, build>>
    /\ UNCHANGED NotFunctions

CallNextPowerOfTwo ==
    /\ fpc = "call"
    /\ callee = "next_power_of_two"
    /\ ret' = next_power_of_two(arg.n, build)
    /\ fpc' = "done"
    /\ UNCHANGED <<callee, arg, build>>
    /\ UNCHANGED NotFunctions

CallZeroPad ==
    /\ fpc = "call"
    /\ callee = "zero_pad"
    /\ ret' = zero_pad(arg.input, arg.length)
    /\ fpc' = "done"
    /\ UNCHANGED <<callee, arg, build>>
    /\ UNCHANGED NotFunctions

CallCompareSegments ==
    /\ fpc = "call"
    /\ callee = "compare_segments"
    /\ ret' = compare_segments(arg.segment, arg.reference, build)
    /\ fpc' = "done"
    /\ UNCHANGED <<callee, arg, build>>
    /\ UNCHANGED NotFunctions

CallTimeDifference ==
    /\ fpc = "call"
    /\ callee = "calculate_time_difference"
    /\ ret' = time_difference_of(arg.segment, arg.reference, arg.sample_rate, build)
    /\ fpc' = "done"
    /\ UNCHANGED <<callee, arg, build>>
    /\ UNCHANGED NotFunctions

CallFmt ==
    /\ fpc = "call"
    /\ callee = "fmt"
    /\ ret' = Returned(fmt(arg.t))
    /\ fpc' = "done"
    /\ UNCHANGED <<callee, arg, build>>
    /\ UNCHANGED NotFunctions

NextFunctions ==
    \/ CallFmt
    \/ CallParseTime
    \/ CallNextPowerOfTwo
    \/ CallZeroPad
    \/ CallCompareSegments
    \/ CallTimeDifference

(***************************************************************************)
(* OverlappingSamplesIter (samples.rs).                                    *)
(***************************************************************************)
\* the chunk sizes of the model; 3 is the odd one
ChunkSizes == {2, 3, 4}

\* three chunks of n samples
ChunkPool(n) == {[i \in 1..n |-> i], [i \in 1..n |-> n + i], [i \in 1..n |-> 1]}

Some(chunk) == [some |-> TRUE, v |-> chunk]
None == [some |-> FALSE, v |-> <<>>]

\* OverlappingSamplesIter::new over an inner iterator of up to MaxChunks chunks
InitSamples ==
    /\ N \in ChunkSizes
    /\ chunks \in UNION {[1..k -> ChunkPool(N)] : k \in 0..MaxChunks}
    /\ sample_iter = chunks
    /\ buffer = [i \in 1..(3 * (N \div 2)) |-> 0]
    /\ is_first = TRUE
    /\ is_overlap = FALSE
    /\ yielded = <<>>
    /\ opc = "iter"

\* next is called while the model has room for its result
Called ==
    /\ opc = "iter"
    /\ Len(yielded) < 2 * MaxChunks + 1

\* lines 174-186: the first chunk is returned and its second half kept;
\* copy_from_slice panics when the two slices differ in length
NextFirst ==
    /\ Called
    /\ is_first
    /\ IF sample_iter = <<>>
       THEN /\ yielded' = Append(yielded, None)
            /\ UNCHANGED <<buffer, sample_iter, is_first, is_overlap, opc>>
       ELSE LET chunk == Head(sample_iter)
                half == N \div 2
            IN  /\ sample_iter' = Tail(sample_iter)
                /\ IF N - half # half
                   THEN /\ opc' = "panic"
                        /\ UNCHANGED <<buffer, is_first, is_overlap, yielded>>
                   ELSE /\ buffer' = SubSeq(chunk, half + 1, N)
                                         \o SubSeq(buffer, half + 1, Len(buffer))
                        /\ is_first' = FALSE
                        /\ is_overlap' = TRUE
                        /\ yielded' = Append(yielded, Some(chunk))
                        /\ UNCHANGED opc
    /\ UNCHANGED <<N, chunks>>
    /\ UNCHANGED NotSamples

\* lines 189-200: the next chunk goes to parts 2 and 3 of the buffer and
\* parts 1 and 2 are returned
NextOverlap ==
    /\ Called
    /\ ~is_first
    /\ is_overlap
    /\ IF sample_iter = <<>>
       THEN /\ yielded' = Append(yielded, None)
            /\ UNCHANGED <<buffer, sample_iter, is_overlap>>
       ELSE LET chunk == Head(sample_iter)
                half == N \div 2
            IN  /\ sample_iter' = Tail(sample_iter)
                /\ buffer' = SubSeq(buffer, 1, half) \o chunk
                /\ is_overlap' = FALSE
                /\ yielded' = Append(yielded, Some(SubSeq(buffer', 1, N)))
    /\ UNCHANGED <<N, chunks, is_first, opc>>
    /\ UNCHANGED NotSamples

\* a return of parts 2 and 3 that leaves the buffer where it is
NextBuffered_nomove ==
    /\ Called
    /\ ~is_first
    /\ ~is_overlap
    /\ is_overlap' = TRUE
    /\ yielded' = Append(yielded, Some(SubSeq(buffer, N \div 2 + 1, Len(buffer))))
    /\ UNCHANGED <<N, chunks, buffer, sample_iter, is_first, opc>>
    /\ UNCHANGED NotSamples

\* lines 201-210: parts 2 and 3 are returned and part 3 moves to part 1
NextBuffered ==
    /\ Called
    /\ ~is_first
    /\ ~is_overlap
    /\ LET half == N \div 2
       IN  /\ yielded' = Append(yielded, Some(SubSeq(buffer, half + 1, Len(buffer))))
           /\ buffer' = SubSeq(buffer, N + 1, N + half)
                            \o SubSeq(buffer, half + 1, Len(buffer))
    /\ is_overlap' = TRUE
    /\ UNCHANGED <<N, chunks, sample_iter, is_first, opc>>
    /\ UNCHANGED NotSamples

NextSamples ==
    \/ NextFirst
    \/ NextOverlap
    \/ NextBuffered

(***************************************************************************)
(* Specifications: one per component, the others idle.                     *)
(***************************************************************************)
IdleSamples ==
    /\ N = 0
    /\ buffer = <<>>
    /\ sample_iter = <<>>
    /\ is_first = TRUE
    /\ is_overlap = FALSE
    /\ chunks = <<>>
    /\ yielded = <<>>
    /\ opc = "off"

IdleFunctions ==
    /\ fpc = "off"
    /\ callee = "none"
    /\ arg = <<>>
    /\ build = "debug"
    /\ ret = Diverged

IdleInteractive ==
    /\ pc = "idle"
    /\ cues = <<>>
    /\ duration = Fin(0)
    /\ buf = <<>>
    /\ comps = <<>>
    /\ line = <<>>
    /\ nread = 0
    /\ range = NoRange
    /\ extract = "none"

IdlePack ==
    /\ ppc = "idle"
    /\ pack = <<>>
    /\ stream = <<>>
    /\ decoded = NoResult
    /\ apc = "idle"
    /\ astream = <<>>
    /\ adecoded = NoResult

IdleUpdate ==
    /\ upc = "off"
    /\ dirFiles = [d \in Dirs |-> {}]
    /\ sidecar = [d \in Dirs |-> NoFile]
    /\ files = <<>>
    /\ packs = <<>>
    /\ cur = NoPack
    /\ todo = <<>>
    /\ npass = 0
    /\ held = [d \in Dirs |-> <<>>]
    /\ calls = <<>>
    /\ wrote = "none"

IdleMatches ==
    /\ mpc = "off"
    /\ ninc = 0
    /\ nexc = 0
    /\ fpst = "none"
    /\ load = [s \in AllSlots |-> "unused"]
    /\ mst = [e \in AllEntries |-> "none"]
    /\ inc_segments = <<>>
    /\ exc_segments = <<>>
    /\ inc_out = <<>>
    /\ exc_out = <<>>

\* The initial state of each program: the component under study starts as its
\* code constructs it, the other components are not running.
StartInteractive ==
    /\ InitInteractive /\ IdlePack /\ IdleUpdate /\ IdleMatches /\ IdleFunctions
    /\ IdleSamples

StartPack ==
    /\ InitPack /\ IdleInteractive /\ IdleUpdate /\ IdleMatches /\ IdleFunctions
    /\ IdleSamples

StartUpdate ==
    /\ InitUpdate /\ IdleInteractive /\ IdlePack /\ IdleMatches /\ IdleFunctions
    /\ IdleSamples

StartMatches ==
    /\ InitMatches /\ IdleInteractive /\ IdlePack /\ IdleUpdate /\ IdleFunctions
    /\ IdleSamples

StartFunctions ==
    /\ InitFunctions /\ IdleInteractive /\ IdlePack /\ IdleUpdate /\ IdleMatches
    /\ IdleSamples

SpecInteractive == StartInteractive /\ [][NextInteractive]_vars

SpecPack == StartPack /\ [][NextPack]_vars

SpecUpdate == StartUpdate /\ [][NextUpdate]_vars

SpecMatches == StartMatches /\ [][NextMatches]_vars

StartSamples ==
    /\ InitSamples
    /\ IdleInteractive /\ IdlePack /\ IdleUpdate /\ IdleMatches /\ IdleFunctions

SpecFunctions == StartFunctions /\ [][NextFunctions]_vars

SpecSamples == StartSamples /\ [][NextSamples]_vars

(***************************************************************************)
(* Properties of the interactive session.                                  *)
(***************************************************************************)
Sorted(cs) == \A i \in 1..(Len(cs) - 1) : FLe(cs[i], cs[i + 1])

\* the step read a line (one iteration of the loop body ran)
ReadStep == nread' = nread + 1

\* C1: the cue list starts as [0, total_duration] and every adjacent pair of
\* cues is in ascending order in every reachable state.
C1_CuesSorted ==
    /\ Sorted(cues)
    /\ (pc = "loop" /\ nread = 0) => cues = <<Fin(0), duration>>

\* an add placed 5 s before a cue at 20 s that an earlier add had inserted
C1_Witness ==
    /\ pc = "loop"
    /\ comps = <<S_add, <<"5">>>>
    /\ cues = <<Fin(0), Fin(500), Fin(2000), Fin(3000)>>

\* C4: after a rejected command the loop continues and every later line is
\* interpreted as the command written on that line alone: the components the
\* loop dispatches on are those of the line just read.
C4_Original == nread > 0 => comps = Comps(line)

\* C5: a remove whose index is >= the length of the cue list leaves the cue
\* list unchanged and the session running.
C5_Original ==
    [][(/\ ReadStep
        /\ comps'[1] \in RemoveWords
        /\ Len(comps') > 1
        /\ UIntFromStr(comps'[2]).ok
        /\ UIntFromStr(comps'[2]).v >= Len(cues))
       => (cues' = cues /\ pc' = "loop")]_vars

\* C6: once a line whose command is exit or quit has been entered, the loop
\* has terminated normally.
C6_Original ==
    (nread > 0 /\ Comps(line)[1] \in ExitWords) => pc = "ok"

\* the step is an add whose time parsed and whose insertion did not panic
SuccessfulAdd ==
    /\ ReadStep
    /\ comps'[1] = S_add
    /\ Len(comps') > 1
    /\ parse_time(comps'[2]).ok
    /\ pc' = "loop"

\* C7: a successful add yields the previous list with exactly one more
\* occurrence of the parsed time (also when the time was already present),
\* every other cue in its previous order, and the list sorted.
C7_AddInsertsOnce ==
    [][SuccessfulAdd =>
        LET t == parse_time(comps'[2]).v
        IN  /\ Len(cues') = Len(cues) + 1
            /\ \E j \in 1..Len(cues') :
                  /\ cues'[j] = t
                  /\ \A k \in 1..(j - 1) : cues'[k] = cues[k]
                  /\ \A k \in (j + 1)..Len(cues') : cues'[k] = cues[k - 1]
            /\ Sorted(cues')]_vars

\* a second add of 5 s left two adjacent cues at 5 s
C7_Witness ==
    /\ pc = "loop"
    /\ comps = <<S_add, <<"5">>>>
    /\ cues = <<Fin(0), Fin(500), Fin(500), Fin(3000)>>

\* the step is a remove with a numeric index below the length of the list
ValidRemove ==
    /\ ReadStep
    /\ comps'[1] \in RemoveWords
    /\ Len(comps') > 1
    /\ UIntFromStr(comps'[2]).ok
    /\ UIntFromStr(comps'[2]).v < Len(cues)

\* C8: a remove with 0 <= index < length deletes exactly the cue at that
\* 0-based position; the others keep their order and the length drops by one.
C8_RemoveDeletesIndex ==
    [][ValidRemove =>
        LET ix == UIntFromStr(comps'[2]).v
        IN  /\ Len(cues') = Len(cues) - 1
            /\ \A k \in 1..ix : cues'[k] = cues[k]
            /\ \A k \in (ix + 1)..Len(cues') : cues'[k] = cues[k + 1]]_vars

\* `remove 1` removed the cue at 5 s from [0, 5, 20, 30]
C8_Witness ==
    /\ pc = "loop"
    /\ nread = 3
    /\ comps = <<S_remove, <<"1">>>>
    /\ cues = <<Fin(0), Fin(2000), Fin(3000)>>

(***************************************************************************)
(* Properties of the pack codec.                                           *)
(***************************************************************************)
\* C2: decode applied to the bytes written by encode returns a PackFile
\* equal to the original, for every pack.
C2_Original == ppc = "decoded" => decoded = PackOk(pack)

(***************************************************************************)
(* Properties of the fingerprint cache updater.                            *)
(***************************************************************************)
\* e is an entry of the pack pk, with the same name and fingerprint words
HasEntry(pk, e) == \E i \in 1..Len(pk) : pk[i] = e

\* C3: after a pass every entry the sidecar held before the pass is still in
\* the sidecar, with the same name and the same fingerprint words; this holds
\* after every one of any number of consecutive passes.
C3_Original ==
    (upc = "idle" /\ npass > 0) =>
        \A d \in Dirs : \A i \in 1..Len(held[d]) :
            HasEntry(Held(sidecar[d]), held[d][i])

(***************************************************************************)
(* Properties of the match engine.                                         *)
(***************************************************************************)
\* the tagged segments of the entries of `kind` whose pack loaded and whose
\* match succeeded
Expected(kind) ==
    UNION { { [name |-> e, seg |-> SegsOf(e)[i]] : i \in 1..Len(SegsOf(e)) } :
            e \in { x \in AllEntries :
                      /\ x.kind = kind
                      /\ load[Slot(x.kind, x.p)] = "ok"
                      /\ mst[x] = "ok" } }

\* the list holds exactly the elements of S, each once
HoldsExactly(xs, S) ==
    /\ Len(xs) = Cardinality(S)
    /\ {xs[i] : i \in 1..Len(xs)} = S

SomeUnitFailed ==
    \/ \E s \in AllSlots : load[s] = "failed"
    \/ \E e \in AllEntries : mst[e] = "failed"

\* C9: a failed pack load or a failed match never fails the call, and the
\* result holds the segments of every entry of every loaded pack whose match
\* succeeded; a failed match contributes no segment.
C9_UnitFailuresIsolated ==
    /\ SomeUnitFailed => mpc # "err"
    /\ mpc = "ok" => /\ HoldsExactly(inc_out, Expected("inc"))
                     /\ HoldsExactly(exc_out, Expected("exc"))

\* the call returned Ok although the second inclusion pack failed to load and
\* one match of the first failed; the other entry's segment is in the result
C9_Witness ==
    /\ mpc = "ok"
    /\ load[Slot("inc", 2)] = "failed"
    /\ mst[Entry("inc", 1, 1)] = "failed"
    /\ mst[Entry("inc", 1, 2)] = "ok"
    /\ inc_out = <<[name |-> Entry("inc", 1, 2), seg |-> SegsOf(Entry("inc", 1, 2))[1]]>>

\* C10: when fingerprinting the input fails the call returns an error and no
\* result lists, whatever packs were given; and an error is returned for no
\* other reason (not for a failed load or a failed match).
C10_InputFailureAborts ==
    /\ fpst = "failed" => (mpc = "err" /\ inc_out = <<>> /\ exc_out = <<>>)
    /\ mpc = "err" => (fpst = "failed" /\ ~SomeUnitFailed)

\* the call returned the error with inclusion and exclusion packs given
C10_Witness ==
    /\ mpc = "err"
    /\ fpst = "failed"
    /\ ninc = MaxIncPacks
    /\ nexc = MaxExcPacks

\* every segment's score is <= the score of the segment after it
AscendingByScore(xs) ==
    \A i \in 1..(Len(xs) - 1) : xs[i].seg.score <= xs[i + 1].seg.score

\* C11: both lists returned by cut_matches ascend by score, the inclusion
\* list and the exclusion list each on its own.
C11_ListsAscendByScore ==
    mpc = "ok" => (AscendingByScore(inc_out) /\ AscendingByScore(exc_out))

\* both lists were returned with segments of different scores, collected in
\* an order that did not ascend
C11_Witness ==
    /\ mpc = "ok"
    /\ Len(inc_out) >= 3
    /\ Len(exc_out) = 2
    /\ ~AscendingByScore(Flatten(inc_segments))
    /\ ~AscendingByScore(Flatten(exc_segments))

\* the results of the run in which the packs of `kind` load in the order
\* given and the entries are matched in pack order, with the outcomes of
\* this run
RECURSIVE InOrderResults(_, _, _)
InOrderResults(kind, p, j) ==
    IF p > (IF kind = "inc" THEN ninc ELSE nexc) THEN <<>>
    ELSE IF load[Slot(kind, p)] # "ok" \/ j > Len(EntriesOf(Slot(kind, p)))
         THEN InOrderResults(kind, p + 1, 1)
    ELSE <<MatchResult(Entry(kind, p, j), mst[Entry(kind, p, j)])>>
         \o InOrderResults(kind, p, j + 1)

\* x placed after the elements of the ascending list ys that do not exceed it
RECURSIVE InsertByScore(_, _)
InsertByScore(x, ys) ==
    IF ys = <<>> THEN <<x>>
    ELSE IF Head(ys).seg.score <= x.seg.score
         THEN <<Head(ys)>> \o InsertByScore(x, Tail(ys))
    ELSE <<x>> \o ys

\* the ascending order of xs that keeps equal scores in their order in xs
RECURSIVE StableByScore(_)
StableByScore(xs) ==
    IF xs = <<>> THEN <<>>
    ELSE InsertByScore(xs[Len(xs)], StableByScore(SubSeq(xs, 1, Len(xs) - 1)))

\* C12: the lists returned do not depend on the order in which loads and
\* matches complete: whatever that order, they equal the lists of the run
\* that completes them in the order given, equal scores included.
C12_Original ==
    mpc = "ok" =>
        /\ inc_out = StableByScore(Flatten(InOrderResults("inc", 1, 1)))
        /\ exc_out = StableByScore(Flatten(InOrderResults("exc", 1, 1)))

\* C13: with no inclusion pack and no exclusion pack and an input whose
\* fingerprint is computed, the call does not fail, and what it returns is
\* two empty lists.
C13_NoPacksEmptyLists ==
    (ninc = 0 /\ nexc = 0 /\ fpst = "ok") =>
        /\ mpc # "err"
        /\ inc_out = <<>>
        /\ exc_out = <<>>

\* the call returned Ok with no pack given
C13_Witness ==
    /\ mpc = "ok"
    /\ ninc = 0
    /\ nexc = 0
    /\ fpst = "ok"

(***************************************************************************)
(* Properties of the inspect command and of the end of the session.        *)
(***************************************************************************)
\* C14: the window of every inspect that reached frame extraction satisfies
\* 0 <= pts_start <= pts_end <= total_duration.
C14_Original ==
    extract # "none" =>
        /\ FLe(Fin(0), range.pts_start)
        /\ FLe(range.pts_start, range.pts_end)
        /\ FLe(range.pts_end, duration)

ExtractFailed == extract \notin {"none", "ok"}

\* C15: when the frame extraction of an inspect fails, the session ends with
\* the error; after that nothing more happens: no retry, no line read.
C15_ExtractFailureEndsSession ==
    [][/\ ExtractFailed' => pc' = "err_inspect"
       /\ ~ExtractFailed]_vars

\* the tool exited with a non-zero code on the second command of a session
C15_Witness ==
    /\ extract = "exit_nonzero"
    /\ pc = "err_inspect"
    /\ nread = 2
    /\ comps[1] = S_inspect

AbnormalEnd == pc \in {"err_stdin", "err_inspect", "panic_remove", "panic_cmp"}

\* C16: once the loop has started the session ends abnormally only because
\* the extraction of an inspect command failed.
C16_Original ==
    AbnormalEnd => (pc = "err_inspect" /\ comps[1] = S_inspect /\ ExtractFailed)

(***************************************************************************)
(* Properties of decode on arbitrary streams.                              *)
(***************************************************************************)
\* the lines of a stream, each with its newline if it has one
RECURSIVE LinesOf(_)
LinesOf(s) ==
    IF s = <<>> THEN <<>>
    ELSE <<read_line(s)>> \o LinesOf(SubSeq(s, Len(read_line(s)) + 1, Len(s)))

PartsOf(ln) == Split(Trim(ln), ":")

\* the line does not split into exactly two parts on ':'
Malformed(ln) == Len(PartsOf(ln)) # 2

\* the line has two parts and its payload is not base64
BadPayload(ln) == ~Malformed(ln) /\ ~B64Decode(PartsOf(ln)[2]).ok

\* the line has two parts and its payload decodes to a number of bytes that
\* is not a multiple of 4
RaggedPayload(ln) ==
    /\ ~Malformed(ln)
    /\ B64Decode(PartsOf(ln)[2]).ok
    /\ Len(B64Decode(PartsOf(ln)[2]).bytes) % 4 # 0

Least(S) == CHOOSE i \in S : \A j \in S : i <= j

\* C17 as stated: decode fails with InvalidLine exactly when some line does
\* not split into exactly two parts on ':', with the 0-based index of the
\* first such line.
C17_Original ==
    ppc = "raw_decoded" =>
        LET ls == LinesOf(stream)
            bad == {i \in 1..Len(ls) : Malformed(ls[i])}
        IN  /\ decoded.t = "InvalidLine" <=> bad # {}
            /\ bad # {} => decoded = PackErr("InvalidLine", Least(bad) - 1)

\* C17 amended: decode fails with InvalidLine exactly when the first line it
\* rejects (a line that does not split into exactly two parts on ':', or a
\* line whose payload is not base64) is one that does not split into two
\* parts; the index is the 0-based position of that line and no entry is
\* returned.
C17_InvalidLineAtFirstRejected ==
    ppc = "raw_decoded" =>
        LET ls == LinesOf(stream)
            rejected == {i \in 1..Len(ls) : Malformed(ls[i]) \/ BadPayload(ls[i])}
            first == Least(rejected)
        IN  /\ decoded.t = "InvalidLine" <=> (rejected # {} /\ Malformed(ls[first]))
            /\ decoded.t = "InvalidLine" => decoded = PackErr("InvalidLine", first - 1)

\* the third line of a stream, after two well-formed ones, has two ':'
C17_Witness ==
    /\ ppc = "raw_decoded"
    /\ Len(LinesOf(stream)) = 3
    /\ Len(PartsOf(LinesOf(stream)[3])) = 3
    /\ decoded = PackErr("InvalidLine", 2)

\* a line that decode reaches and whose payload is not a multiple of 4 bytes
ReachesRagged(s) ==
    LET ls == LinesOf(s)
    IN  \E i \in 1..Len(ls) :
            /\ RaggedPayload(ls[i])
            /\ \A j \in 1..(i - 1) : ~Malformed(ls[j]) /\ ~BadPayload(ls[j])

\* C18: a payload that decodes to a number of bytes that is not a multiple of
\* 4 makes decode and decode_async reject the pack with InvalidU32.
C18_Original ==
    /\ (ppc = "raw_decoded" /\ ReachesRagged(stream)) => decoded.t = "InvalidU32"
    /\ (apc = "raw_decoded" /\ ReachesRagged(astream)) => adecoded.t = "InvalidU32"

\* C19: for every stream decode and decode_async give the same PackFile or
\* the same error with the same line index, and for every PackFile encode and
\* encode_async write the same bytes.
C19_SyncAsyncAgree ==
    /\ (ppc \in {"decoded", "raw_decoded"} /\ apc \in {"decoded", "raw_decoded"})
           => decoded = adecoded
    /\ (ppc \in {"encoded", "decoded"} /\ apc \in {"encoded", "decoded"})
           => stream = astream

\* both variants rejected the second line of a stream
C19_Witness ==
    /\ ppc = "raw_decoded"
    /\ apc = "raw_decoded"
    /\ decoded = PackErr("InvalidLine", 1)
    /\ adecoded = PackErr("InvalidLine", 1)

(***************************************************************************)
(* Properties of the failures of one unit of an update pass.               *)
(***************************************************************************)
\* the step begins a pass in which a sidecar that exists was not loaded
LoadFailedStep ==
    /\ upc = "idle" /\ upc' # "idle"
    /\ \E d \in Dirs :
          /\ sidecar[d].exists
          /\ \A i \in 1..Len(packs') : packs'[i].path # d

\* the step begins a pass in which the listing of a directory stopped early
ListFailedStep ==
    /\ upc = "idle" /\ upc' # "idle"
    /\ \E i \in 1..Len(files') :
          Len(files'[i].list) < Cardinality(dirFiles[files'[i].dir])

\* the step handles a file that has no entry and gets none: its fingerprint
\* could not be computed
FingerprintFailedStep ==
    /\ upc = "files" /\ todo # <<>> /\ todo' # todo
    /\ \A i \in 1..Len(cur.pack) : cur.pack[i].name # Head(todo)
    /\ cur' = cur

\* the step ends a directory without the whole pack written to its sidecar
WriteFailedStep ==
    /\ upc = "files" /\ todo = <<>> /\ upc' # upc
    /\ \/ sidecar' = sidecar
       \/ sidecar'[cur.path].bytes #
             Overwrite(sidecar[cur.path].bytes, encode_async(cur.pack))

\* C20: a failed listing, a sidecar that cannot be loaded, a failed
\* fingerprint or a failed write never ends the call with an error: every
\* directory stays queued, a directory whose sidecar was not loaded starts
\* from an empty pack, the remaining files and directories are handled, and
\* the call returns only when nothing is left.
C20_UnitFailuresDoNotAbort ==
    [][/\ upc' # "err"
       /\ (LoadFailedStep \/ ListFailedStep) =>
              (upc' = "dirs" /\ {files'[i].dir : i \in 1..Len(files')} = Dirs)
       /\ (upc = "dirs" /\ upc' = "files"
             /\ \A i \in 1..Len(packs) : packs[i].path # Head(files).dir) =>
              cur' = [path |-> Head(files).dir, pack |-> <<>>]
       /\ FingerprintFailedStep =>
              (upc' = "files" /\ todo' = Tail(todo) /\ files' = files)
       /\ WriteFailedStep => (upc' = "dirs" /\ files' = files)
       /\ (upc # "idle" /\ upc' = "idle") =>
              (files = <<>> /\ todo = <<>> /\ npass' = npass + 1)]_vars

\* a call has returned although the sidecar of d1, which has files, could
\* not be created; the sidecar of d2 was written all the same
C20_Witness ==
    /\ upc = "idle"
    /\ npass = 1
    /\ dirFiles["d1"] # {}
    /\ ~sidecar["d1"].exists
    /\ sidecar["d2"].exists
    /\ sidecar["d2"].bytes # <<>>

(***************************************************************************)
(* Properties of the files and of the sidecar of one directory.            *)
(***************************************************************************)
NamesOf(pk) == {pk[i].name : i \in 1..Len(pk)}

\* the step handles the next file of the directory being visited
FileStep == upc = "files" /\ todo # <<>> /\ todo' = Tail(todo)

\* C21: the fingerprinter is invoked only for a file whose name is not an
\* entry of the pack of the directory, and at most once for it; a file whose
\* name is an entry is skipped and the pack is left as it is.
C21_Original ==
    [][FileStep =>
        /\ calls' # calls =>
               /\ Head(todo) \notin NamesOf(cur.pack)
               /\ \A i \in 1..Len(calls) : calls[i].name # Head(todo)
        /\ Head(todo) \in NamesOf(cur.pack) => (calls' = calls /\ cur' = cur)]_vars

\* ascending by name, no name twice
SortedUnique(pk) ==
    \A i \in 1..(Len(pk) - 1) : StrCmp(pk[i].name, pk[i + 1].name) = "Less"

\* C22: if the pack loaded for a directory is sorted by name with unique
\* names, it is so after every insertion, and so is the pack that is encoded
\* into the sidecar.
C22_PackStaysSortedUnique ==
    [][/\ (upc = "dirs" /\ upc' = "files" /\ \A i \in 1..Len(packs) : SortedUnique(packs[i].pack))
            => SortedUnique(cur'.pack)
       /\ (FileStep /\ SortedUnique(cur.pack)) => SortedUnique(cur'.pack)
       /\ (upc = "files" /\ wrote' = "ok" /\ SortedUnique(cur.pack)) =>
              SubSeq(sidecar'[cur.path].bytes, 1, Len(encode_async(cur.pack)))
                 = encode_async(cur.pack)]_vars

\* file b was inserted after the entry of a that the sidecar held, and the
\* two-entry pack was written
C22_Witness ==
    /\ upc = "dirs"
    /\ wrote = "ok"
    /\ calls = <<[name |-> <<"b">>, outcome |-> "ok"]>>
    /\ decode_async(sidecar["d1"].bytes).t = "Ok"
    /\ Len(decode_async(sidecar["d1"].bytes).pack) = 2
    /\ decode_async(sidecar["d1"].bytes).pack[1].name = <<"a">>
    /\ decode_async(sidecar["d1"].bytes).pack[2].name = <<"b">>

\* C23: when fingerprinting a file fails no entry is added for it and the
\* other entries are unchanged; the remaining files are still handled, and
\* the directory is left only by writing its sidecar.
C23_FailedFingerprintSkipsFile ==
    [][/\ (FileStep /\ calls' = Append(calls, [name |-> Head(todo), outcome |-> "failed"]))
            => (cur' = cur /\ upc' = "files" /\ files' = files)
       /\ (upc = "files" /\ upc' # "files") => (todo = <<>> /\ wrote' # "none")]_vars

\* the fingerprint of a failed, that of b succeeded after it, and the sidecar
\* was written with the entry of b alone
C23_Witness ==
    /\ upc = "dirs"
    /\ wrote = "ok"
    /\ calls = <<[name |-> <<"a">>, outcome |-> "failed"],
                 [name |-> <<"b">>, outcome |-> "ok"]>>
    /\ sidecar["d1"].bytes = encode_async(<<[name |-> <<"b">>, fp |-> FpOf(<<"b">>)]>>)

\* C24: after a successful write the sidecar is exactly the encoding of the
\* in-memory pack, also when the file was longer before.
C24_Original ==
    [][(upc = "files" /\ wrote' = "ok") =>
          sidecar'[cur.path] = [exists |-> TRUE, bytes |-> encode_async(cur.pack)]]_vars

(***************************************************************************)
(* Commands of cut_interactive that do not touch the lists.                *)
(***************************************************************************)
\* the commands of the claim: matches, cues, help, an unrecognized word, an
\* add whose time is missing or does not parse, a remove whose index is
\* missing or does not parse
LeavesLists(cs) ==
    \/ cs[1] \in {S_help, S_matches, S_cues}
    \/ cs[1] \notin KnownWords
    \/ cs[1] = S_add /\ (Len(cs) <= 1 \/ ~parse_time(cs[2]).ok)
    \/ cs[1] \in RemoveWords /\ (Len(cs) <= 1 \/ ~UIntFromStr(cs[2]).ok)

Number(s) == s # <<>> /\ AllDigits(s)

\* ss[.frac]
SecondsForm(s) ==
    LET d == Split(s, ".")
    IN  Number(d[1]) /\ (Len(d) = 1 \/ (Len(d) = 2 /\ Number(d[2])))

\* [[hh:]mm:]ss[.frac]
TimeForm(t) ==
    LET c == Split(t, ":")
    IN  /\ Len(c) <= 3
        /\ SecondsForm(c[Len(c)])
        /\ \A i \in 1..(Len(c) - 1) : Number(c[i])

\* 3600*hh + 60*mm + ss of a text of that form, in hundredths of a second
TimeValue(t) ==
    LET c == RSplit(t, ":")
        d == Split(c[1], ".")
    IN  100 * DecVal(d[1], 0) + (IF Len(d) = 2 THEN Hundredths(d[2]) ELSE 0)
        + (IF Len(c) >= 2 THEN 6000 * DecVal(c[2], 0) ELSE 0)
        + (IF Len(c) >= 3 THEN 360000 * DecVal(c[3], 0) ELSE 0)

ParsedTime == fpc = "done" /\ callee = "parse_time"

\* C26: parse_time returns 3600*hh + 60*mm + ss for a text of the form
\* [[hh:]mm:]ss[.frac] (3723.5 for 01:02:03.5, 90 for 90, 150 for 2:30) and
\* rejects every other text.
C26_Original ==
    ParsedTime =>
        /\ TimeForm(arg.time) => ret = [ok |-> TRUE, v |-> Fin(TimeValue(arg.time))]
        /\ ~TimeForm(arg.time) => ~ret.ok
        /\ arg.time = <<"0", "1", ":", "0", "2", ":", "0", "3", ".", "5">>
               => ret.v = Fin(372350)
        /\ arg.time = <<"9", "0">> => ret.v = Fin(9000)
        /\ arg.time = <<"2", ":", "3", "0">> => ret.v = Fin(15000)

(***************************************************************************)
(* Properties of next_power_of_two, zero_pad and compare_segments.         *)
(***************************************************************************)
\* exactly one bit set
PowerOfTwo(p) == \E k \in 0..(UsizeBits - 1) : p = Pow2(k)

\* p is the smallest power of two that is at least n
SmallestPowerFrom(p, n) == PowerOfTwo(p) /\ ~ULt(p, n) /\ ULt(Shr1(p), n)

CalledNextPower == fpc = "done" /\ callee = "next_power_of_two"

CalledZeroPad == fpc = "done" /\ callee = "zero_pad"

\* C29: zero_pad(input, length) with len(input) <= length returns exactly
\* `length` elements, element i being input[i] with imaginary part 0 for
\* i < len(input) and zero from there on; with len(input) > length it panics.
C29_ZeroPadKeepsAndFills ==
    CalledZeroPad =>
        IF Len(arg.input) <= arg.length
        THEN /\ ret.t = "Ok"
             /\ Len(ret.v) = arg.length
             /\ \A i \in 1..arg.length :
                    ret.v[i] = IF i <= Len(arg.input)
                               THEN [re |-> arg.input[i], im |-> 0]
                               ELSE [re |-> 0, im |-> 0]
        ELSE ret.t = "Panic"

\* two samples padded to three elements
C29_Witness ==
    /\ CalledZeroPad
    /\ arg = [input |-> <<1, 2>>, length |-> 3]
    /\ ret = Returned(<<[re |-> 1, im |-> 0], [re |-> 2, im |-> 0],
                        [re |-> 0, im |-> 0]>>)

\* the correlation of s with itself at a lag: the sum of s[n + lag] * s[n]
AutoCorrelation(s, lag) ==
    SumTo([n \in 1..Len(s) |->
              IF n + lag \in 1..Len(s) THEN s[n + lag] * s[n] ELSE 0], Len(s))

ComparedSegments == fpc = "done" /\ callee = "compare_segments"

\* C30: for a signal s that is not all zero, compare_segments(s, s) returns
\* the offset 0 and, as peak, the correlation at lag 0, which is at least the
\* correlation at every other lag.
C30_Original ==
    (/\ ComparedSegments
     /\ arg.segment = arg.reference
     /\ \E i \in 1..Len(arg.segment) : arg.segment[i] # 0) =>
        /\ ret.t = "Ok"
        /\ ret.v.index = 0
        /\ ret.v.value = AutoCorrelation(arg.segment, 0)
        /\ \A lag \in (1 - Len(arg.segment))..(Len(arg.segment) - 1) :
               ret.v.value >= AutoCorrelation(arg.segment, lag)

(***************************************************************************)
(* The window and sampling of inspect.                                     *)
(***************************************************************************)
\* time - w .. time + w in hundredths of a second, clamped to 0 .. d
Clamped(time, w, d) ==
    [pts_start |-> Fin(IF time - w < 0 THEN 0 ELSE time - w),
     pts_end |-> Fin(IF time + w > d THEN d ELSE time + w)]

\* the policy of the claim for mode words ms (empty when no mode is given)
Policy(time, ms, d) ==
    IF ms = <<>>
    THEN Clamped(time, 120000, d)
             @@ [skip_frames |-> "none", frame_rate_secs |-> Fin(6000)]
    ELSE IF ms[1] \in {S_key, S_keyframe}
    THEN Clamped(time, 2000, d)
             @@ [skip_frames |-> "nokey", frame_rate_secs |-> NoF]
    ELSE IF ms[1] \in {S_frame, S_all}
    THEN Clamped(time, 500, d)
             @@ [skip_frames |-> "none", frame_rate_secs |-> NoF]
    ELSE Clamped(time, 20 * parse_time(ms[1]).v.n, d)
             @@ [skip_frames |-> "none", frame_rate_secs |-> parse_time(ms[1]).v]

\* a mode that is no mode word and no duration
OtherMode(ms) ==
    /\ ms # <<>>
    /\ ms[1] \notin {S_key, S_keyframe, S_frame, S_all}
    /\ ~parse_time(ms[1]).ok

\* the loop executes an inspect command whose time parses
InspectStep ==
    /\ nread' = nread + 1
    /\ comps'[1] = S_inspect
    /\ Len(comps') > 1
    /\ parse_time(comps'[2]).ok
    /\ parse_time(comps'[2]).v.k = "fin"

TimeDifferenceDone == fpc = "done" /\ callee = "calculate_time_difference"

NotSilent(s) == \E i \in 1..Len(s) : s[i] # 0

\* C31: when one segment is the other delayed by d samples, compare_segments
\* returns the index of lag d (d, or -d when the segment is the delayed one),
\* and calculate_time_difference gives (duration_a - duration_b)/2 -
\* index/sample_rate; for the segments of the tests that is 5.0 s at rate 2
\* and 2.5 s at rate 4.
C31_Original ==
    TimeDifferenceDone =>
        /\ ret.t = "Ok"
        /\ ret.v.time_diff =
               (1000 * (Len(arg.segment) - Len(arg.reference))) \div (2 * arg.sample_rate)
               - (1000 * ret.v.index) \div arg.sample_rate
        /\ (arg.segment = TestFirst /\ arg.sample_rate = 2) => ret.v.time_diff = 5000
        /\ (arg.segment = TestFirst /\ arg.sample_rate = 4) => ret.v.time_diff = 2500
        /\ \A d \in 0..MaxSignal :
               /\ (NotSilent(arg.segment) /\ arg.reference = Delayed(arg.segment, d))
                      => ret.v.index = d
               /\ (NotSilent(arg.reference) /\ arg.segment = Delayed(arg.reference, d))
                      => ret.v.index = 0 - d

(***************************************************************************)
(* Properties of OverlappingSamplesIter.                                   *)
(***************************************************************************)
\* the second half of a followed by the first half of b
Straddle(a, b) ==
    SubSeq(a, Len(a) \div 2 + 1, Len(a)) \o SubSeq(b, 1, Len(b) \div 2)

\* c1, o1, c2, o2, ..., ck for the chunks cs, then None for ever
ExpectedItem(cs, i) ==
    IF i > 2 * Len(cs) - 1 THEN None
    ELSE IF i % 2 = 1 THEN Some(cs[(i + 1) \div 2])
    ELSE Some(Straddle(cs[i \div 2], cs[i \div 2 + 1]))

\* C32: over k chunks of even size the calls of next return c1, o1, c2, o2,
\* ..., ck, each input chunk unchanged and in order and each oi the second
\* half of ci followed by the first half of c(i+1), 2k-1 chunks in all (none
\* when k = 0), and None from then on.
C32_OverlapAlternates ==
    N % 2 = 0 =>
        /\ opc # "panic"
        /\ \A i \in 1..Len(yielded) : yielded[i] = ExpectedItem(chunks, i)

\* three chunks of four samples gave five chunks and None
C32_Witness ==
    /\ N = 4
    /\ chunks = <<<<1, 2, 3, 4>>, <<5, 6, 7, 8>>, <<1, 1, 1, 1>>>>
    /\ yielded = <<Some(<<1, 2, 3, 4>>), Some(<<3, 4, 5, 6>>), Some(<<5, 6, 7, 8>>),
                   Some(<<7, 8, 1, 1>>), Some(<<1, 1, 1, 1>>), None>>

(***************************************************************************)
(* Scheduling and results of cut_matches.                                  *)
(***************************************************************************)
\* the packs given to the call
Given == {s \in AllSlots : load[s] # "unused"}

\* no load and no match is pending or running
AllSettled ==
    /\ \A s \in Given : load[s] \in {"ok", "failed"}
    /\ \A e \in AllEntries : mst[e] \in {"none", "ok", "failed"}

\* C33: the flattening and sorting of cut_matches starts only when every
\* pack load has completed or failed and every match that was started has
\* completed or failed, and once it has started no result is added to a list.
C33_SortAfterFullJoin ==
    [][/\ (mpc # "ok" /\ mpc' = "ok") => AllSettled
       /\ mpc = "ok" => UNCHANGED <<load, mst, inc_segments, exc_segments,
                                   inc_out, exc_out>>]_vars

\* a call on two inclusion packs and one exclusion pack returned; one load
\* and one match had failed
C33_Witness ==
    /\ mpc = "ok"
    /\ ninc = 2
    /\ nexc = 1
    /\ load[Slot("inc", 2)] = "failed"
    /\ load[Slot("exc", 1)] = "ok"
    /\ mst[Entry("inc", 1, 1)] = "failed"
    /\ mst[Entry("inc", 1, 2)] = "ok"
    /\ inc_out # <<>>

\* C34: every pack load is in flight together with the others and with the
\* input fingerprinting: when the input fingerprint has been computed every
\* load has already started, and when an inclusion load ends every exclusion
\* load has already started.
C34_Original ==
    [][/\ fpst' # fpst => \A s \in Given : load[s] # "pushed"
       /\ \A s \in IncSlots :
              (load[s] = "running" /\ load'[s] # "running")
                  => \A x \in ExcSlots : load[x] # "pushed"]_vars

\* the results collected for entry e
ResultsFor(e) ==
    LET rs == IF e.kind = "inc" THEN inc_segments ELSE exc_segments
    IN  {i \in 1..Len(rs) : rs[i].name = e}

\* C35: the input fingerprint is computed once, before any match runs, and
\* stays as it is; when the call returns, every entry of a pack that loaded
\* has been matched exactly once and no entry of a pack whose load failed has
\* been matched.
C35_OneFingerprintOneMatchPerEntry ==
    [][/\ fpst # "none" => fpst' = fpst
       /\ \A e \in AllEntries : mst'[e] # "none" => fpst = "ok"
       /\ mpc' = "ok" =>
              \A s \in AllSlots : \A j \in 1..Len(EntriesOf(s)) :
                  Cardinality(ResultsFor(EntriesOf(s)[j])') =
                      IF load'[s] = "ok" THEN 1 ELSE 0]_vars

\* the call returned; the first inclusion pack loaded and both its entries
\* were matched, the second failed to load
C35_Witness ==
    /\ mpc = "ok"
    /\ fpst = "ok"
    /\ load[Slot("inc", 1)] = "ok"
    /\ load[Slot("inc", 2)] = "failed"
    /\ Cardinality(ResultsFor(Entry("inc", 1, 1))) = 1
    /\ Cardinality(ResultsFor(Entry("inc", 1, 2))) = 1
    /\ ResultsFor(Entry("inc", 2, 1)) = {}

\* the tagged segments of the successful matches of the entries of one kind
Produced(kind) ==
    UNION { {[name |-> e, seg |-> SegsOf(e)[i]] : i \in 1..Len(SegsOf(e))} :
            e \in {x \in AllEntries : x.kind = kind /\ mst[x] = "ok"} }

\* xs holds every element of set once and nothing else
ExactlyOnce(xs, set) ==
    /\ Len(xs) = Cardinality(set)
    /\ \A x \in set : \E i \in 1..Len(xs) : xs[i] = x

\* C36: the inclusion list returned by cut_matches holds exactly the segments
\* of the successful matches of inclusion entries, each once and tagged with
\* the entry that produced it, the exclusion list likewise, and no segment of
\* one kind is in the list of the other.
C36_ListsHoldExactlyTheMatches ==
    mpc = "ok" =>
        /\ ExactlyOnce(inc_out, Produced("inc"))
        /\ ExactlyOnce(exc_out, Produced("exc"))
        /\ \A i \in 1..Len(inc_out) : inc_out[i].name.kind = "inc"
        /\ \A i \in 1..Len(exc_out) : exc_out[i].name.kind = "exc"

\* the call returned two segments of an inclusion entry and one of the
\* exclusion entry
C36_Witness ==
    /\ mpc = "ok"
    /\ Len(inc_out) >= 2
    /\ \E i, k \in 1..Len(inc_out) : i # k /\ inc_out[i].name = inc_out[k].name
    /\ Len(exc_out) >= 1

(***************************************************************************)
(* The range of the cues.                                                  *)
(***************************************************************************)
\* C37: every cue of the cue list lies within the input media, from 0 to the
\* total duration, whatever times were given to add.
C37_Original ==
    \A i \in 1..Len(cues) : FLe(Fin(0), cues[i]) /\ FLe(cues[i], duration)

(***************************************************************************)
(* The running maximum of compare_segments.                                *)
(***************************************************************************)
\* the correlation values the scan reads, real_part[0 .. len - 1]
RealPart(segment, reference) ==
    LET len == Len(segment) + Len(reference) - 1
        flen == NatOf(next_power_of_two(Usize(len), "debug").v)
        x == zero_pad(segment, flen).v
        y == zero_pad(reference, flen).v
    IN  [i \in 1..len |-> CrossCorrelation(x, y, i - 1).re \div flen]

\* the 0-based indices of the largest value of vs, when it is positive
PeakIndices(vs) ==
    {i \in 0..(Len(vs) - 1) :
        vs[i + 1] > 0 /\ \A k \in 1..Len(vs) : vs[k] <= vs[i + 1]}

\* both inputs hold a sample
BothGiven == ComparedSegments /\ arg.segment # <<>> /\ arg.reference # <<>>

Displayed == fpc = "done" /\ callee = "fmt"

\* the text reads H:MM:SS.CC; its four numbers
Fields(text) ==
    LET c == Split(text, ":")
        d == Split(c[3], ".")
    IN  [h |-> DecVal(c[1], 0), mm |-> DecVal(c[2], 0), ss |-> DecVal(d[1], 0),
         cc |-> DecVal(d[2], 0)]

WellFormed(text) ==
    LET c == Split(text, ":")
    IN  /\ Len(c) = 3
        /\ Number(c[1])
        /\ Number(c[2]) /\ Len(c[2]) = 2
        /\ Len(Split(c[3], ".")) = 2
        /\ \A i \in 1..2 : Number(Split(c[3], ".")[i]) /\ Len(Split(c[3], ".")[i]) = 2

\* C39: DurationDisplay prints a non-negative time t as H:MM:SS.CC with
\* MM < 60 and SS < 60, where 3600*H + 60*MM + SS is the whole number of
\* seconds of t and CC its hundredths, so that the text is within 0.01 s of
\* t; 59.60 s prints as 0:00:59.60.
C39_Original ==
    (Displayed /\ arg.t.k = "fin" /\ arg.t.n >= 0) =>
        /\ WellFormed(ret.v)
        /\ Fields(ret.v).mm < 60
        /\ Fields(ret.v).ss < 60
        /\ 3600 * Fields(ret.v).h + 60 * Fields(ret.v).mm + Fields(ret.v).ss
               = arg.t.n \div 100
        /\ Fields(ret.v).cc = arg.t.n % 100
        /\ arg.t = Fin(5960)
               => ret.v = <<"0", ":", "0", "0", ":", "5", "9", ".", "6", "0">>

====
